---- MODULE Spec2Model ----
(***************************************************************************)
(* The SVG filter graph evaluator of lunasvg (source/lunasvg/              *)
(* filterelement.cpp, renderstate.cpp): the linear-light filter image and  *)
(* its conversion from and to an 8-bit premultiplied sRGB canvas, the      *)
(* filter context (results table, lastResult), the filter primitives, and  *)
(* SVGFilterElement::applyFilter as SVGRenderState::endGroup calls it.     *)
(*                                                                         *)
(* Numbers.  A float of the program is a fixed-point integer n standing    *)
(* for n / Q; every product and quotient is rounded to the nearest unit,   *)
(* as float arithmetic rounds to the nearest representable value.  A byte  *)
(* b of a canvas is the integer b, and b / 255.f is b * (Q / 255).         *)
(***************************************************************************)
EXTENDS Integers, Sequences, FiniteSets, TLC

\* ------------------------------------------------------------ arithmetic

\* One unit of the fixed-point grid is 1/Q; Q is a multiple of 255 so that
\* byte / 255.f is exact.
Q == 255 * 64

Min(a, b) == IF a <= b THEN a ELSE b

Max(a, b) == IF a >= b THEN a ELSE b

\* std::clamp(v, lo, hi)
Clamp(v, lo, hi) == IF v < lo THEN lo ELSE IF v > hi THEN hi ELSE v

\* n / d rounded to the nearest integer (d > 0), halves upwards
RoundDiv(n, d) == (2 * n + d) \div (2 * d)

\* x * y and x / y on the fixed-point grid
FMul(x, y) == RoundDiv(x * y, Q)

FDiv(x, y) == RoundDiv(x * Q, y)

\* a float literal num/den on the grid, e.g. 0.213f is Lit(213, 1000)
Lit(num, den) == RoundDiv(num * Q, den)

\* ------------------------------------------------ colour space conversion

\* toLinear at the 256 arguments k / 255, k = 0..255, on the grid
\* (c / 12.92 up to 0.04045, ((c + 0.055) / 1.055)^2.4 above).
LinearOfByte ==
    << 0, 5, 10, 15, 20, 25, 30, 35, 40, 45, 50, 55, 60, 66, 72, 78,
       85, 91, 99, 106, 114, 122, 131, 140, 149, 159, 169, 179, 190, 201, 212, 224,
       236, 248, 261, 274, 288, 302, 316, 331, 346, 362, 378, 394, 411, 428, 446, 464,
       482, 501, 521, 540, 560, 581, 602, 623, 645, 668, 691, 714, 737, 762, 786, 811,
       837, 863, 889, 916, 943, 971, 1000, 1028, 1058, 1087, 1118, 1148, 1179, 1211, 1243, 1276,
       1309, 1343, 1377, 1412, 1447, 1483, 1519, 1555, 1593, 1630, 1669, 1707, 1747, 1786, 1827, 1868,
       1909, 1951, 1993, 2036, 2080, 2124, 2168, 2214, 2259, 2305, 2352, 2399, 2447, 2496, 2545, 2594,
       2644, 2695, 2746, 2798, 2850, 2903, 2957, 3011, 3065, 3120, 3176, 3232, 3289, 3347, 3405, 3464,
       3523, 3583, 3643, 3704, 3766, 3828, 3891, 3954, 4018, 4083, 4148, 4214, 4280, 4347, 4415, 4483,
       4552, 4621, 4691, 4762, 4833, 4905, 4977, 5051, 5124, 5199, 5274, 5349, 5426, 5503, 5580, 5658,
       5737, 5816, 5897, 5977, 6059, 6141, 6223, 6307, 6390, 6475, 6560, 6646, 6733, 6820, 6908, 6996,
       7085, 7175, 7266, 7357, 7449, 7541, 7634, 7728, 7823, 7918, 8013, 8110, 8207, 8305, 8403, 8503,
       8603, 8703, 8804, 8906, 9009, 9112, 9216, 9321, 9426, 9532, 9639, 9746, 9854, 9963, 10073, 10183,
       10294, 10406, 10518, 10631, 10745, 10859, 10974, 11090, 11207, 11324, 11442, 11561, 11680, 11800, 11921, 12043,
       12165, 12288, 12412, 12536, 12661, 12787, 12914, 13041, 13169, 13298, 13428, 13558, 13689, 13821, 13953, 14087,
       14221, 14355, 14491, 14627, 14764, 14902, 15040, 15179, 15319, 15460, 15601, 15744, 15887, 16030, 16175, 16320 >>

\* toLinear(c): c / 12.92 on the linear segment; on the power segment the
\* value at k/255 exactly and the chord between two neighbouring arguments
\* (the chord is within 1e-5 of the power curve); past 1 the last chord.
toLinear(c) ==
    IF c <= (4045 * Q) \div 100000 THEN RoundDiv(c * 100, 1292)
    ELSE LET k  == Clamp(c \div 64, 0, 254)
             lo == LinearOfByte[k + 1]
             hi == LinearOfByte[k + 2]
         IN  lo + RoundDiv((hi - lo) * (c - 64 * k), 64)

\* The segment of the table that holds c: the largest k in lo .. hi - 1 with
\* toLinear(k/255) <= c, found by bisection (toLinear(lo/255) <= c)
RECURSIVE SegmentOf(_, _, _)
SegmentOf(c, lo, hi) ==
    IF hi - lo <= 1 THEN lo
    ELSE LET mid == (lo + hi) \div 2
         IN  IF LinearOfByte[mid + 1] <= c
             THEN SegmentOf(c, mid, hi)
             ELSE SegmentOf(c, lo, mid)

\* toSRGB(c): c * 12.92 on the linear segment; on the power segment
\* (1.055 * c^(1/2.4) - 0.055) the inverse of toLinear: exact at the values
\* toLinear(k/255) and the chord between two neighbours.
toSRGB(c) ==
    IF c <= (31308 * Q) \div 10000000 THEN RoundDiv(c * 1292, 100)
    ELSE LET k  == SegmentOf(c, 0, 255)
             lo == LinearOfByte[k + 1]
             hi == LinearOfByte[k + 2]
         IN  64 * k + RoundDiv(64 * (c - lo), hi - lo)

\* toByte(v) = (uint8_t) round(clamp(v, 0, 1) * 255)
toByte(v) == RoundDiv(Clamp(v, 0, Q) * 255, Q)

\* std::round to int: halves away from zero
RoundToInt(v) ==
    IF v >= 0 THEN (2 * v + Q) \div (2 * Q) ELSE 0 - ((Q - 2 * v) \div (2 * Q))

\* C++ int / int: truncation towards zero
TruncDiv(n, d) == IF n >= 0 THEN n \div d ELSE 0 - ((0 - n) \div d)

\* ------------------------------------------------------------ FilterImage

Chan == {"r", "g", "b", "a"}

\* FilterPixel {0,0,0,0}
ZeroPixel == [r |-> 0, g |-> 0, b |-> 0, a |-> 0]

Pixel(r, g, b, a) == [r |-> r, g |-> g, b |-> b, a |-> a]

\* The constructor changed to take the width for the height and the height
\* for the width
NewImageTransposed(w, h) == [w |-> h, h |-> w, px |-> [i \in 1 .. w * h |-> ZeroPixel]]

\* FilterImage::FilterImage(w, h): w * h pixels {0,0,0,0}; pixel i of the
\* program is px[i + 1]
NewImage(w, h) == [w |-> w, h |-> h, px |-> [i \in 1 .. w * h |-> ZeroPixel]]

\* A canvas: its extents (x, y, w, h) and its surface, stride bytes a row, 4
\* bytes a pixel in the order B, G, R, A; byte i of the program is data[i + 1].
\* Canvas::create(extents) gives a cleared canvas of those extents.
CanvasCreate(ext) ==
    [x |-> ext.x, y |-> ext.y, w |-> ext.w, h |-> ext.h, stride |-> 4 * ext.w,
     data |-> [i \in 1 .. 4 * ext.w * ext.h |-> 0]]

Extents(canvas) == [x |-> canvas.x, y |-> canvas.y, w |-> canvas.w, h |-> canvas.h]

\* fromCanvas changed to read the bytes of a pixel in the order R, G, B, A
LinearOfBytesRGBA(bb, gg, rr, aa) ==
    LET a == aa * 64
    IN  IF a > 0
        THEN Pixel(FMul(toLinear(FDiv(bb * 64, a)), a),
                   FMul(toLinear(FDiv(gg * 64, a)), a),
                   FMul(toLinear(FDiv(rr * 64, a)), a), a)
        ELSE ZeroPixel

\* fromCanvas changed to convert the colour bytes of a pixel of alpha 0
LinearOfBytesKeepColour(bb, gg, rr, aa) ==
    LET a == aa * 64
    IN  IF a > 0
        THEN Pixel(FMul(toLinear(FDiv(rr * 64, a)), a),
                   FMul(toLinear(FDiv(gg * 64, a)), a),
                   FMul(toLinear(FDiv(bb * 64, a)), a), a)
        ELSE Pixel(toLinear(rr * 64), toLinear(gg * 64), toLinear(bb * 64), 0)

\* One pixel of FilterImage::fromCanvas, from the bytes B, G, R, A
LinearOfBytes(bb, gg, rr, aa) ==
    LET a == aa * 64
    IN  IF a > 0
        THEN Pixel(FMul(toLinear(FDiv(rr * 64, a)), a),
                   FMul(toLinear(FDiv(gg * 64, a)), a),
                   FMul(toLinear(FDiv(bb * 64, a)), a), a)
        ELSE ZeroPixel

\* FilterImage::fromCanvas
fromCanvas(canvas) ==
    LET w == canvas.w
        h == canvas.h
    IN  [w |-> w, h |-> h,
         px |-> [k \in 1 .. w * h |->
                   LET y == (k - 1) \div w
                       x == (k - 1) % w
                       i == y * canvas.stride + x * 4
                   IN  LinearOfBytes(canvas.data[i + 1], canvas.data[i + 2],
                                     canvas.data[i + 3], canvas.data[i + 4])]]

\* toCanvas changed to clamp the colour over alpha to [0, 2]
BytesOfLinearClampTwo(p) ==
    LET a == Clamp(p.a, 0, Q)
    IN  IF a * 10000 > Q
        THEN << toByte(FMul(toSRGB(Clamp(FDiv(p.b, a), 0, 2 * Q)), a)),
                toByte(FMul(toSRGB(Clamp(FDiv(p.g, a), 0, 2 * Q)), a)),
                toByte(FMul(toSRGB(Clamp(FDiv(p.r, a), 0, 2 * Q)), a)),
                toByte(a) >>
        ELSE << 0, 0, 0, 0 >>

\* One pixel of FilterImage::toCanvas: the bytes <<B, G, R, A>>
BytesOfLinear(p) ==
    LET a == Clamp(p.a, 0, Q)
    IN  IF a * 10000 > Q
        THEN << toByte(FMul(toSRGB(Clamp(FDiv(p.b, a), 0, Q)), a)),
                toByte(FMul(toSRGB(Clamp(FDiv(p.g, a), 0, Q)), a)),
                toByte(FMul(toSRGB(Clamp(FDiv(p.r, a), 0, Q)), a)),
                toByte(a) >>
        ELSE << 0, 0, 0, 0 >>

\* FilterImage::toCanvas(extents): a canvas created with the extents, the
\* image's m_width x m_height pixels written at y * stride + x * 4
toCanvas(img, ext) ==
    LET canvas == CanvasCreate(ext)
    IN  [canvas EXCEPT !.data =
           [j \in DOMAIN canvas.data |->
              LET y == (j - 1) \div canvas.stride
                  x == ((j - 1) % canvas.stride) \div 4
                  c == (j - 1) % 4
              IN  IF x < img.w /\ y < img.h
                  THEN BytesOfLinear(img.px[y * img.w + x + 1])[c + 1]
                  ELSE 0]]

\* ---------------------------------------------------------- FilterContext

\* A std::shared_ptr<FilterImage> is the identity of an image of the heap
\* (a positive integer); nullptr is Null.  A context is a record: heap (the
\* images alive, by identity), nextId, results (name -> identity),
\* lastResult, sourceGraphic, sourceAlpha.
Null == 0

\* std::make_shared<FilterImage>(w, h)
Alloc(c, w, h) ==
    [c EXCEPT !.heap = (c.nextId :> NewImage(w, h)) @@ c.heap,
              !.nextId = c.nextId + 1]

\* The identity Alloc has just given out
Newest(c) == c.nextId - 1

\* Writing the pixels of image id through its data() pointer
Store(c, id, px) == [c EXCEPT !.heap[id].px = px]

\* The images some shared_ptr of the context still refers to
Reachable(c) ==
    {c.sourceGraphic, c.sourceAlpha, c.lastResult}
        \cup {c.results[n] : n \in DOMAIN c.results}

\* The end of a render: its local shared_ptrs go out of scope and the images
\* nothing refers to any more are destroyed
Release(c) == [c EXCEPT !.heap = [id \in Reachable(c) \cap DOMAIN c.heap |-> c.heap[id]]]

\* The pixels of SourceAlpha, from those of SourceGraphic
AlphaOnly(px) == [i \in DOMAIN px |-> Pixel(0, 0, 0, px[i].a)]

\* The constructor changed to derive SourceAlpha in place, in the image of
\* SourceGraphic
NewContextInPlace(sourceGraphic) ==
    LET sg == fromCanvas(sourceGraphic)
    IN  [heap |-> (1 :> [sg EXCEPT !.px = AlphaOnly(sg.px)]),
         nextId |-> 2,
         results |-> ("SourceGraphic" :> 1) @@ ("SourceAlpha" :> 1),
         lastResult |-> 1,
         sourceGraphic |-> 1,
         sourceAlpha |-> 1]

\* The constructor changed to leave lastResult empty
NewContextNoLast(sourceGraphic) ==
    LET sg == fromCanvas(sourceGraphic)
        sa == [NewImage(sourceGraphic.w, sourceGraphic.h) EXCEPT !.px = AlphaOnly(sg.px)]
    IN  [heap |-> (1 :> sg) @@ (2 :> sa),
         nextId |-> 3,
         results |-> ("SourceGraphic" :> 1) @@ ("SourceAlpha" :> 2),
         lastResult |-> Null,
         sourceGraphic |-> 1,
         sourceAlpha |-> 2]

\* FilterContext::FilterContext
NewContext(sourceGraphic) ==
    LET sg == fromCanvas(sourceGraphic)
        sa == [NewImage(sourceGraphic.w, sourceGraphic.h) EXCEPT !.px = AlphaOnly(sg.px)]
    IN  [heap |-> (1 :> sg) @@ (2 :> sa),
         nextId |-> 3,
         results |-> ("SourceGraphic" :> 1) @@ ("SourceAlpha" :> 2),
         lastResult |-> 1,
         sourceGraphic |-> 1,
         sourceAlpha |-> 2]

\* getInput changed to fall back on lastResult for a name it does not find
getInputOrLast(c, in) ==
    IF in \in DOMAIN c.results THEN c.results[in] ELSE c.lastResult

\* FilterContext::getInput
getInput(c, in) ==
    IF in = "" THEN c.lastResult
    ELSE IF in \in DOMAIN c.results THEN c.results[in]
    ELSE Null

\* addResult changed to results.emplace(result, image), which keeps the image
\* a name already has
addResultEmplace(c, result, image) ==
    [c EXCEPT !.lastResult = image,
              !.results = IF result # "" THEN @ @@ (result :> image) ELSE @]

\* addResult changed to set lastResult only for an unnamed result
addResultElse(c, result, image) ==
    IF result # ""
    THEN [c EXCEPT !.results = (result :> image) @@ @]
    ELSE [c EXCEPT !.lastResult = image]

\* FilterContext::addResult
addResult(c, result, image) ==
    [c EXCEPT !.lastResult = image,
              !.results = IF result # "" THEN (result :> image) @@ @ ELSE @]

\* ------------------------------------------------------------------ boxBlur

\* val += p, val -= p and val * iarr, channel by channel
PxAdd(p, q) == [ch \in Chan |-> p[ch] + q[ch]]

PxSub(p, q) == [ch \in Chan |-> p[ch] - q[ch]]

PxScale(p, k) == [ch \in Chan |-> k * p[ch]]

\* val * iarr with iarr = 1.f / (r + r + 1): the quotient of val by 2r + 1
\* to the nearest unit (the rounding of iarr itself is far below a unit)
PxDiv(p, n) == [ch \in Chan |-> RoundDiv(p[ch], n)]

\* The indices of one strip: head + std::min(j, n - 1) * step read by the
\* first loop, cur_ri and cur_li read by the second, ti written by it
SeedIndex(head, step, n, j) == head + Min(j, n - 1) * step

RightIndex(head, step, n, r, j) == head + Min(j + r, n - 1) * step

LeftIndex(head, step, r, j) == head + Max(j - r - 1, 0) * step

\* ti after j rounds of the second loop, changed to never advance
WriteIndexStuck(head, step, j) == head

WriteIndex(head, step, j) == head + j * step

\* The accumulator changed to start from r * fv, not (r + 1) * fv
RECURSIVE BlurSeedShort(_, _, _, _, _, _)
BlurSeedShort(src, head, step, n, r, j) ==
    IF j >= r THEN PxScale(src[head + 1], r)
    ELSE PxAdd(BlurSeedShort(src, head, step, n, r, j + 1),
               src[SeedIndex(head, step, n, j) + 1])

\* The accumulator before the output loop: (r + 1) * fv plus the samples
\* src[head + min(j, n - 1) * step] for j = 0 .. r - 1
RECURSIVE BlurSeed(_, _, _, _, _, _)
BlurSeed(src, head, step, n, r, j) ==
    IF j >= r THEN PxScale(src[head + 1], r + 1)
    ELSE PxAdd(BlurSeed(src, head, step, n, r, j + 1),
               src[SeedIndex(head, step, n, j) + 1])

\* The output loop of one strip from position j on, val being the
\* accumulator after position j - 1: the pairs <<ti, pixel>> it writes
RECURSIVE BlurStrip(_, _, _, _, _, _, _)
BlurStrip(src, head, step, n, r, j, val) ==
    IF j >= n THEN {}
    ELSE LET cur_ri == RightIndex(head, step, n, r, j)
             cur_li == LeftIndex(head, step, r, j)
             v      == IF j > 0
                       THEN PxAdd(val, PxSub(src[cur_ri + 1], src[cur_li + 1]))
                       ELSE val
         IN  {<<WriteIndex(head, step, j), PxDiv(v, r + r + 1)>>}
                 \cup BlurStrip(src, head, step, n, r, j + 1, v)

\* The accesses of one pass: reads, the triples <<i, j, index>> of the
\* strip i, the round j of a loop and the index read from src, and writes,
\* the triples <<i, j, ti>> of the index written to dst
BlurAccesses(w, h, r, horizontal) ==
    LET n      == IF horizontal THEN w ELSE h
        step   == IF horizontal THEN 1 ELSE w
        strips == IF horizontal THEN h ELSE w
        head(i) == IF horizontal THEN i * w ELSE i
    IN  IF r <= 0 THEN [reads |-> {}, writes |-> {}]
        ELSE [reads  |-> UNION { {<<i, 0, head(i)>>}
                                  \cup {<<i, j, SeedIndex(head(i), step, n, j)>> : j \in 0 .. r - 1}
                                  \cup {<<i, j, RightIndex(head(i), step, n, r, j)>> : j \in 0 .. n - 1}
                                  \cup {<<i, j, LeftIndex(head(i), step, r, j)>> : j \in 0 .. n - 1}
                                 : i \in 0 .. strips - 1 },
              writes |-> UNION { {<<i, j, WriteIndex(head(i), step, j)>> : j \in 0 .. n - 1}
                                 : i \in 0 .. strips - 1 }]

\* boxBlur(src, dst, w, h, r, horizontal): the pixels of dst afterwards
boxBlur(src, dst, w, h, r, horizontal) ==
    IF r <= 0 THEN dst
    ELSE LET n      == IF horizontal THEN w ELSE h
             step   == IF horizontal THEN 1 ELSE w
             strips == IF horizontal THEN h ELSE w
             writes == UNION {BlurStrip(src, IF horizontal THEN i * w ELSE i, step, n, r, 0,
                                BlurSeed(src, IF horizontal THEN i * w ELSE i, step, n, r, 0))
                              : i \in 0 .. strips - 1}
         IN  [k \in DOMAIN dst |->
                IF \E wr \in writes : wr[1] = k - 1
                THEN (CHOOSE wr \in writes : wr[1] = k - 1)[2]
                ELSE dst[k]]

\* (int) std::floor(stdDev * 3.f * std::sqrt(2.f * M_PI) / 4.f + 0.5f) / 2
\* with 3 * sqrt(2 pi) / 4 = 1.879971
BoxRadius(stdDev) ==
    TruncDiv((FMul(stdDev, RoundDiv(187997 * (Q \div 10), 10000)) + Q \div 2) \div Q, 2)

\* stdDevX and stdDevY from the stdDeviation list
StdDevX(vals) == IF Len(vals) = 0 THEN 0 ELSE vals[1]

\* stdDevY changed to start from 1, not from 0
StdDevYFromOne(vals) ==
    IF Len(vals) = 0 THEN Q ELSE IF Len(vals) > 1 THEN vals[2] ELSE vals[1]

StdDevY(vals) == IF Len(vals) = 0 THEN 0 ELSE IF Len(vals) > 1 THEN vals[2] ELSE vals[1]

\* The three rounds of a horizontal and a vertical pass, on the image buf
\* with the scratch image temp: boxBlur(buf -> temp), memcpy(buf <- temp)
RECURSIVE BlurRounds(_, _, _, _, _, _)
BlurRounds(c, buf, temp, rx, ry, i) ==
    IF i >= 3 THEN c
    ELSE LET w  == c.heap[buf].w
             h  == c.heap[buf].h
             c1 == IF rx > 0
                   THEN LET t == Store(c, temp, boxBlur(c.heap[buf].px, c.heap[temp].px, w, h, rx, TRUE))
                        IN  Store(t, buf, t.heap[temp].px)
                   ELSE c
             c2 == IF ry > 0
                   THEN LET t == Store(c1, temp, boxBlur(c1.heap[buf].px, c1.heap[temp].px, w, h, ry, FALSE))
                        IN  Store(t, buf, t.heap[temp].px)
                   ELSE c1
         IN  BlurRounds(c2, buf, temp, rx, ry, i + 1)

\* The calls of boxBlur the three rounds make, in order: <<r, horizontal>>
RECURSIVE BlurPasses(_, _, _)
BlurPasses(rx, ry, i) ==
    IF i >= 3 THEN << >>
    ELSE (IF rx > 0 THEN << <<rx, TRUE>> >> ELSE << >>)
            \o (IF ry > 0 THEN << <<ry, FALSE>> >> ELSE << >>)
            \o BlurPasses(rx, ry, i + 1)

\* The calls of boxBlur a render of the feGaussianBlur d makes
GaussianBlurPasses(d) ==
    LET sx == StdDevX(d.stdDeviation)
        sy == StdDevY(d.stdDeviation)
    IN  IF sx > 0 \/ sy > 0 THEN BlurPasses(BoxRadius(sx), BoxRadius(sy), 0) ELSE << >>

\* --------------------------------------------------------------- primitives

\* A child of the filter element is a record: kind (a filter primitive
\* kind, or "Other" for a child that is no filter primitive), in, in2,
\* result, stdDeviation (a list), dx, dy, flood_color (bytes <<r, g, b>>),
\* flood_opacity, operator, k1..k4, mode, type, values (a list) and nodes
\* (the children of an feMerge: records [node, in]).

\* toLinear(color.redF()) * ra and so on: the flood pixel for alpha a
FloodPixel(d, a) ==
    LET ra == d.flood_opacity
    IN  Pixel(FMul(toLinear(d.flood_color[1] * 64), ra),
              FMul(toLinear(d.flood_color[2] * 64), ra),
              FMul(toLinear(d.flood_color[3] * 64), ra), a)

\* s + d * (1 - s.a), channel by channel
SrcOver(s, d) == [ch \in Chan |-> s[ch] + FMul(d[ch], Q - s.a)]

\* The blur changed to work in the image of its input instead of a copy
GaussianBlurRenderInPlace(c, d) ==
    LET input == getInput(c, d.in)
    IN  IF input = Null THEN c
        ELSE LET c1 == Alloc(c, c.heap[input].w, c.heap[input].h)
                 sx == StdDevX(d.stdDeviation)
                 sy == StdDevY(d.stdDeviation)
                 c2 == IF sx > 0 \/ sy > 0
                       THEN BlurRounds(c1, input, Newest(c1), BoxRadius(sx), BoxRadius(sy), 0)
                       ELSE c1
             IN  addResult(c2, d.result, input)

\* SVGFeGaussianBlurElement::render
GaussianBlurRender(c, d) ==
    LET input == getInput(c, d.in)
    IN  IF input = Null THEN c
        ELSE LET w      == c.heap[input].w
                 h      == c.heap[input].h
                 c1     == Alloc(c, w, h)
                 result == Newest(c1)
                 c2     == Alloc(c1, w, h)
                 temp   == Newest(c2)
                 c3     == Store(c2, result, c2.heap[input].px)
                 sx     == StdDevX(d.stdDeviation)
                 sy     == StdDevY(d.stdDeviation)
                 c4     == IF sx > 0 \/ sy > 0
                           THEN BlurRounds(c3, result, temp, BoxRadius(sx), BoxRadius(sy), 0)
                           ELSE c3
             IN  addResult(c4, d.result, result)

\* The offset changed to test the position sy * w + sx, not sx and sy, against
\* the image
OffsetPixelsWrap(src, dst, w, h, ox, oy) ==
    [k \in DOMAIN dst |->
       LET from == k - ox - oy * w
       IN  IF from >= 1 /\ from <= w * h THEN src[from] ELSE dst[k]]

\* The pixels an offset by (ox, oy) writes over dst: src at (x - ox, y - oy)
\* where that is inside the image
OffsetPixels(src, dst, w, h, ox, oy) ==
    [k \in DOMAIN dst |->
       LET y  == (k - 1) \div w
           x  == (k - 1) % w
           sx == x - ox
           sy == y - oy
       IN  IF sx >= 0 /\ sx < w /\ sy >= 0 /\ sy < h
           THEN src[sy * w + sx + 1]
           ELSE dst[k]]

\* SVGFeOffsetElement::render
OffsetRender(c, d) ==
    LET input == getInput(c, d.in)
    IN  IF input = Null THEN c
        ELSE LET w      == c.heap[input].w
                 h      == c.heap[input].h
                 c1     == Alloc(c, w, h)
                 result == Newest(c1)
                 c2     == Store(c1, result,
                                 OffsetPixels(c1.heap[input].px, c1.heap[result].px, w, h,
                                              RoundToInt(d.dx), RoundToInt(d.dy)))
             IN  addResult(c2, d.result, result)

\* Step 1 of the drop shadow: shadow->data()[i] = {rr, rg, rb, input.a * ra}
ShadowPixels(px, d) ==
    [i \in DOMAIN px |-> FloodPixel(d, FMul(px[i].a, d.flood_opacity))]

\* SVGFeDropShadowElement::render
DropShadowRender(c, d) ==
    LET input == getInput(c, d.in)
    IN  IF input = Null THEN c
        ELSE LET w      == c.heap[input].w
                 h      == c.heap[input].h
                 c1     == Alloc(c, w, h)
                 shadow == Newest(c1)
                 c2     == Store(c1, shadow, ShadowPixels(c1.heap[input].px, d))
                 sx     == StdDevX(d.stdDeviation)
                 sy     == StdDevY(d.stdDeviation)
                 c3     == IF sx > 0 \/ sy > 0
                           THEN LET t == Alloc(c2, w, h)
                                IN  BlurRounds(t, shadow, Newest(t), BoxRadius(sx), BoxRadius(sy), 0)
                           ELSE c2
                 c4     == Alloc(c3, w, h)
                 result == Newest(c4)
                 moved  == OffsetPixels(c4.heap[shadow].px, [i \in 1 .. w * h |-> ZeroPixel],
                                        w, h, RoundToInt(d.dx), RoundToInt(d.dy))
                 c5     == Store(c4, result,
                                 [i \in 1 .. w * h |-> SrcOver(c4.heap[input].px[i], moved[i])])
             IN  addResult(c5, d.result, result)

\* The merge changed to leave its loop at the first child that gives no input
RECURSIVE MergeNodesStopAtUnknown(_, _, _, _, _, _)
MergeNodesStopAtUnknown(c, nodes, i, result, w, h) ==
    IF i > Len(nodes) THEN c
    ELSE LET input == IF nodes[i].node THEN getInput(c, nodes[i].in) ELSE Null
         IN  IF input = Null THEN c
             ELSE MergeNodesStopAtUnknown(
                      Store(c, result,
                            [k \in 1 .. w * h |->
                               SrcOver(c.heap[input].px[k], c.heap[result].px[k])]),
                      nodes, i + 1, result, w, h)

\* The loop of SVGFeMergeElement::render over the children from position i
RECURSIVE MergeNodes(_, _, _, _, _, _)
MergeNodes(c, nodes, i, result, w, h) ==
    IF i > Len(nodes) THEN c
    ELSE LET input == IF nodes[i].node THEN getInput(c, nodes[i].in) ELSE Null
             c1    == IF input # Null
                      THEN Store(c, result,
                                 [k \in 1 .. w * h |->
                                    SrcOver(c.heap[input].px[k], c.heap[result].px[k])])
                      ELSE c
         IN  MergeNodes(c1, nodes, i + 1, result, w, h)

\* SVGFeMergeElement::render
MergeRender(c, d) ==
    LET w      == c.heap[c.sourceGraphic].w
        h      == c.heap[c.sourceGraphic].h
        c1     == Alloc(c, w, h)
        result == Newest(c1)
    IN  addResult(MergeNodes(c1, d.nodes, 1, result, w, h), d.result, result)

\* SVGFeFloodElement::render
FloodRender(c, d) ==
    LET w      == c.heap[c.sourceGraphic].w
        h      == c.heap[c.sourceGraphic].h
        c1     == Alloc(c, w, h)
        result == Newest(c1)
        c2     == Store(c1, result, [i \in 1 .. w * h |-> FloodPixel(d, d.flood_opacity)])
    IN  addResult(c2, d.result, result)

\* SVGFeBlendElement::render
BlendRender(c, d) ==
    LET i1 == getInput(c, d.in)
        i2 == getInput(c, d.in2)
    IN  IF i1 = Null \/ i2 = Null THEN c
        ELSE LET w      == c.heap[i1].w
                 h      == c.heap[i1].h
                 c1     == Alloc(c, w, h)
                 result == Newest(c1)
                 c2     == Store(c1, result,
                                 [i \in 1 .. w * h |->
                                    SrcOver(c1.heap[i1].px[i], c1.heap[i2].px[i])])
             IN  addResult(c2, d.result, result)

\* The arithmetic operator changed to apply k2 to the second and k3 to the
\* first input
ArithSwapped(d, x, y) ==
    FMul(FMul(d.k1, x), y) + FMul(d.k2, y) + FMul(d.k3, x) + d.k4

\* k1 * x * y + k2 * x + k3 * y + k4 of the arithmetic operator
Arith(d, x, y) ==
    FMul(FMul(d.k1, x), y) + FMul(d.k2, x) + FMul(d.k3, y) + d.k4

\* x / a, or 0 when a is not positive
Unpremul(x, a) == IF a > 0 THEN FDiv(x, a) ELSE 0

\* The composite changed to take the factors of In for Out and of Out for In
CompositePixelInOutSwapped(d, s1, s2, old) ==
    LET fa == CASE d.operator = "over" -> Q
                [] d.operator = "in"   -> Q - s2.a
                [] d.operator = "out"  -> s2.a
                [] d.operator = "atop" -> s2.a
                [] d.operator = "xor"  -> Q - s2.a
                [] OTHER               -> 0
        fb == CASE d.operator = "over" -> Q - s1.a
                [] d.operator = "in"   -> 0
                [] d.operator = "out"  -> 0
                [] d.operator = "atop" -> Q - s1.a
                [] d.operator = "xor"  -> Q - s1.a
                [] OTHER               -> 0
    IN  [ch \in Chan |-> FMul(s1[ch], fa) + FMul(s2[ch], fb)]

\* One pixel of SVGFeCompositeElement::render, old being the pixel of the
\* fresh result image
CompositePixel(d, s1, s2, old) ==
    IF d.operator = "arithmetic"
    THEN LET na == Clamp(Arith(d, s1.a, s2.a), 0, Q)
         IN  IF na > 0
             THEN Pixel(FMul(Clamp(Arith(d, Unpremul(s1.r, s1.a), Unpremul(s2.r, s2.a)), 0, Q), na),
                        FMul(Clamp(Arith(d, Unpremul(s1.g, s1.a), Unpremul(s2.g, s2.a)), 0, Q), na),
                        FMul(Clamp(Arith(d, Unpremul(s1.b, s1.a), Unpremul(s2.b, s2.a)), 0, Q), na),
                        na)
             ELSE old
    ELSE LET fa == CASE d.operator = "over" -> Q
                     [] d.operator = "in"   -> s2.a
                     [] d.operator = "out"  -> Q - s2.a
                     [] d.operator = "atop" -> s2.a
                     [] d.operator = "xor"  -> Q - s2.a
                     [] OTHER               -> 0
             fb == CASE d.operator = "over" -> Q - s1.a
                     [] d.operator = "in"   -> 0
                     [] d.operator = "out"  -> 0
                     [] d.operator = "atop" -> Q - s1.a
                     [] d.operator = "xor"  -> Q - s1.a
                     [] OTHER               -> 0
         IN  [ch \in Chan |-> FMul(s1[ch], fa) + FMul(s2[ch], fb)]

\* SVGFeCompositeElement::render
CompositeRender(c, d) ==
    LET input  == getInput(c, d.in)
        input2 == getInput(c, d.in2)
    IN  IF input = Null \/ input2 = Null THEN c
        ELSE LET w      == c.heap[input].w
                 h      == c.heap[input].h
                 c1     == Alloc(c, w, h)
                 result == Newest(c1)
                 c2     == Store(c1, result,
                                 [i \in 1 .. w * h |->
                                    CompositePixel(d, c1.heap[input].px[i],
                                                   c1.heap[input2].px[i], c1.heap[result].px[i])])
             IN  addResult(c2, d.result, result)

\* std::cos and std::sin of an angle in degrees, for the multiples of 90
\* degrees (the angles the filters of this model use)
CosDeg(theta) ==
    LET q == (RoundToInt(theta) \div 90) % 4
    IN  CASE q = 0 -> Q [] q = 1 -> 0 [] q = 2 -> 0 - Q [] OTHER -> 0

SinDeg(theta) ==
    LET q == (RoundToInt(theta) \div 90) % 4
    IN  CASE q = 0 -> 0 [] q = 1 -> Q [] q = 2 -> 0 [] OTHER -> 0 - Q

\* The 20 matrix entries m[0..19] of SVGFeColorMatrixElement::render, as
\* m[1..20]; the empty list when the type is none of the four
ColorMatrixOf(d) ==
    CASE d.type = "matrix" ->
           IF Len(d.values) < 20 THEN [i \in 1 .. 20 |-> 0] ELSE d.values
      [] d.type = "saturate" ->
           LET s == IF Len(d.values) = 0 THEN Q ELSE d.values[1]
               L(n) == Lit(n, 1000)
           IN  << L(213) + FMul(L(787), s), L(715) - FMul(L(715), s), L(72) - FMul(L(72), s), 0, 0,
                  L(213) - FMul(L(213), s), L(715) + FMul(L(285), s), L(72) - FMul(L(72), s), 0, 0,
                  L(213) - FMul(L(213), s), L(715) - FMul(L(715), s), L(72) + FMul(L(928), s), 0, 0,
                  0, 0, 0, Q, 0 >>
      [] d.type = "hueRotate" ->
           LET theta == IF Len(d.values) = 0 THEN 0 ELSE d.values[1]
               co    == CosDeg(theta)
               si    == SinDeg(theta)
               L(n)  == Lit(n, 1000)
               C(n)  == FMul(co, Lit(n, 1000))
               S(n)  == FMul(si, Lit(n, 1000))
           IN  << L(213) + C(787) - S(213), L(715) - C(715) - S(715), L(72) - C(72) + S(928), 0, 0,
                  L(213) - C(213) + S(143), L(715) + C(285) + S(140), L(72) - C(72) - S(283), 0, 0,
                  L(213) - C(213) - S(787), L(715) - C(715) + S(715), L(72) + C(928) + S(72), 0, 0,
                  0, 0, 0, Q, 0 >>
      [] d.type = "luminanceToAlpha" ->
           << 0, 0, 0, 0, 0, 0, 0, 0, 0, 0, 0, 0, 0, 0, 0,
              Lit(2125, 10000), Lit(7154, 10000), Lit(721, 10000), 0, 0 >>
      [] OTHER -> << >>

\* m[row .. row + 4] applied to (r, g, b, a, 1); row is 0, 5, 10 or 15
MatrixRow(m, row, r, g, b, a) ==
    FMul(m[row + 1], r) + FMul(m[row + 2], g) + FMul(m[row + 3], b)
        + FMul(m[row + 4], a) + m[row + 5]

\* One pixel of SVGFeColorMatrixElement::render for a non-empty matrix, old
\* being the pixel of the fresh result image
ColorMatrixPixel(m, s, old) ==
    IF s.a <= 0 THEN old
    ELSE LET r  == FDiv(s.r, s.a)
             g  == FDiv(s.g, s.a)
             b  == FDiv(s.b, s.a)
             na == Clamp(MatrixRow(m, 15, r, g, b, s.a), 0, Q)
         IN  Pixel(FMul(MatrixRow(m, 0, r, g, b, s.a), na),
                   FMul(MatrixRow(m, 5, r, g, b, s.a), na),
                   FMul(MatrixRow(m, 10, r, g, b, s.a), na), na)

\* SVGFeColorMatrixElement::render
ColorMatrixRender(c, d) ==
    LET input == getInput(c, d.in)
    IN  IF input = Null THEN c
        ELSE LET w      == c.heap[input].w
                 h      == c.heap[input].h
                 c1     == Alloc(c, w, h)
                 result == Newest(c1)
                 m      == ColorMatrixOf(d)
                 c2     == Store(c1, result,
                                 IF Len(m) = 0 THEN c1.heap[input].px
                                 ELSE [i \in 1 .. w * h |->
                                         ColorMatrixPixel(m, c1.heap[input].px[i],
                                                          c1.heap[result].px[i])])
             IN  addResult(c2, d.result, result)

\* The virtual call primitive->render(context), with the destruction of the
\* images the render leaves unreferenced
Render(c, d) ==
    Release(CASE d.kind = "feGaussianBlur" -> GaussianBlurRender(c, d)
              [] d.kind = "feOffset"       -> OffsetRender(c, d)
              [] d.kind = "feDropShadow"   -> DropShadowRender(c, d)
              [] d.kind = "feMerge"        -> MergeRender(c, d)
              [] d.kind = "feFlood"        -> FloodRender(c, d)
              [] d.kind = "feBlend"        -> BlendRender(c, d)
              [] d.kind = "feComposite"    -> CompositeRender(c, d)
              [] d.kind = "feColorMatrix"  -> ColorMatrixRender(c, d))

\* isFilterPrimitiveElement changed to miss feFlood
isFilterPrimitiveElementButFlood(d) == d.kind \notin {"Other", "feFlood"}

\* isFilterPrimitiveElement()
isFilterPrimitiveElement(d) == d.kind # "Other"

\* Whether render(context) reaches a std::make_shared<FilterImage>: Merge
\* and Flood always do, the others once their inputs are found
Allocates(c, d) ==
    CASE d.kind \in {"feMerge", "feFlood"}      -> TRUE
      [] d.kind \in {"feBlend", "feComposite"}  ->
             getInput(c, d.in) # Null /\ getInput(c, d.in2) # Null
      [] OTHER                                  -> getInput(c, d.in) # Null

\* --------------------------------------------------------- SVGRenderState

\* SVGBlendInfo is a record: clipper ("none", "path" for a clipper that
\* does not require masking, "mask" for one that does), masker and filter
\* (whether the element has one) and opacity.

\* SVGBlendInfo::requiresCompositing
requiresCompositing(info, m) ==
    info.clipper = "mask"
        \/ (m = "Painting" /\ (info.masker \/ info.filter \/ info.opacity < Q))

\* ------------------------------------------------------------------- inputs

\* The length of the longest list of children of a filter element
MaxChildren == 2

\* A filter primitive element as its constructor leaves it
Prim(kind, in, in2, result) ==
    [kind |-> kind, in |-> in, in2 |-> in2, result |-> result,
     stdDeviation |-> << >>, dx |-> 0, dy |-> 0,
     flood_color |-> << 0, 0, 0 >>, flood_opacity |-> Q,
     operator |-> "over", k1 |-> 0, k2 |-> 0, k3 |-> 0, k4 |-> 0,
     mode |-> "normal", type |-> "matrix", values |-> << >>, nodes |-> << >>]

\* An feMergeNode with the given in, and a child of an feMerge that is none
MergeNode(in) == [node |-> TRUE, in |-> in]

NotANode == [node |-> FALSE, in |-> ""]

IdentityMatrix ==
    << Q, 0, 0, 0, 0,  0, Q, 0, 0, 0,  0, 0, Q, 0, 0,  0, 0, 0, Q, 0 >>

\* The children a filter element is built from: every primitive kind, each
\* kind that reads an input also with the name "a", which is unknown until a
\* primitive publishes it; named and unnamed results; results named like the
\* seeds; the same image read twice; a child that is no primitive.
Children ==
    { [Prim("feGaussianBlur", "", "", "a") EXCEPT !.stdDeviation = << Q >>],
      Prim("feGaussianBlur", "a", "", ""),
      [Prim("feOffset", "SourceAlpha", "", "a") EXCEPT !.dx = Q],
      [Prim("feOffset", "a", "", "SourceGraphic") EXCEPT !.dy = 0 - Q],
      Prim("feOffset", "", "", ""),
      [Prim("feDropShadow", "", "", "") EXCEPT !.dx = Q, !.dy = Q, !.flood_opacity = Q \div 2],
      [Prim("feDropShadow", "a", "", "a") EXCEPT !.dx = 2 * Q, !.dy = 2 * Q,
                                                 !.stdDeviation = << Q, 0 >>],
      [Prim("feMerge", "", "", "") EXCEPT
          !.nodes = << MergeNode("SourceGraphic"), NotANode, MergeNode("a"),
                       MergeNode("SourceGraphic") >>],
      Prim("feMerge", "", "", "SourceAlpha"),
      [Prim("feFlood", "", "", "a") EXCEPT !.flood_color = << 0, 0, 255 >>],
      Prim("feBlend", "", "", ""),
      [Prim("feBlend", "a", "SourceGraphic", "a") EXCEPT !.mode = "multiply"],
      Prim("feBlend", "SourceAlpha", "a", ""),
      Prim("feComposite", "SourceGraphic", "SourceAlpha", ""),
      [Prim("feComposite", "a", "", "a") EXCEPT !.operator = "arithmetic", !.k2 = Q],
      [Prim("feComposite", "", "a", "a") EXCEPT !.operator = "in"],
      [Prim("feColorMatrix", "", "", "a") EXCEPT !.values = IdentityMatrix],
      [Prim("feColorMatrix", "a", "", "") EXCEPT !.type = "luminanceToAlpha"],
      [Prim("feGaussianBlur", "SourceGraphic", "", "") EXCEPT !.stdDeviation = << 0, 2 * Q >>],
      [Prim("feMerge", "", "", "a") EXCEPT !.nodes = << MergeNode("a"), MergeNode("") >>],
      [Prim("feFlood", "", "", "") EXCEPT !.flood_color = << 255, 128, 0 >>,
                                          !.flood_opacity = Q \div 2],
      [Prim("feComposite", "", "SourceGraphic", "") EXCEPT !.operator = "xor"],
      [Prim("feComposite", "SourceAlpha", "a", "SourceAlpha") EXCEPT !.operator = "atop"],
      [Prim("feComposite", "a", "a", "") EXCEPT !.operator = "out"],
      [Prim("feColorMatrix", "SourceGraphic", "", "") EXCEPT !.type = "saturate", !.values = << 0 >>],
      [Prim("feColorMatrix", "", "", "a") EXCEPT !.type = "hueRotate", !.values = << 90 * Q >>],
      Prim("Other", "", "", "") }

\* The lists of at most n children
RECURSIVE ChildLists(_)
ChildLists(n) ==
    IF n = 0 THEN { << >> }
    ELSE LET shorter == ChildLists(n - 1)
         IN  shorter \cup {Append(l, d) : l \in {s \in shorter : Len(s) = n - 1}, d \in Children}

\* A canvas of w x h pixels at the origin with tightly packed rows, from its
\* pixels <<B, G, R, A>> in row-major order
Raster(w, h, pixels) ==
    [x |-> 0, y |-> 0, w |-> w, h |-> h, stride |-> 4 * w,
     data |-> [i \in 1 .. 4 * w * h |-> pixels[((i - 1) \div 4) + 1][((i - 1) % 4) + 1]]]

\* The group canvases a group is ended with: premultiplied pixels, among
\* them a transparent, an opaque and a half transparent one; one canvas is
\* wider than the window of a box blur of radius 1
Rasters ==
    { Raster(2, 2, << << 0, 0, 255, 255 >>, << 64, 0, 32, 128 >>,
                      << 0, 0, 0, 0 >>, << 255, 255, 255, 255 >> >>),
      Raster(2, 1, << << 64, 0, 32, 128 >>, << 0, 0, 255, 255 >> >>),
      Raster(4, 1, << << 255, 255, 255, 255 >>, << 0, 0, 0, 0 >>,
                      << 255, 255, 255, 255 >>, << 0, 128, 255, 255 >> >>),
      Raster(1, 2, << << 0, 200, 0, 200 >>, << 0, 0, 0, 0 >> >>) }

\* The groups that are ended: rendering mode and blend info
Groups ==
    { [mode |-> "Painting", info |-> [clipper |-> "none", masker |-> FALSE, filter |-> TRUE, opacity |-> Q]],
      [mode |-> "Painting", info |-> [clipper |-> "mask", masker |-> TRUE, filter |-> TRUE, opacity |-> Q \div 2]],
      [mode |-> "Painting", info |-> [clipper |-> "path", masker |-> FALSE, filter |-> FALSE, opacity |-> Q]],
      [mode |-> "Painting", info |-> [clipper |-> "none", masker |-> FALSE, filter |-> FALSE, opacity |-> Q \div 2]],
      [mode |-> "Clipping", info |-> [clipper |-> "mask", masker |-> TRUE, filter |-> TRUE, opacity |-> Q \div 2]],
      [mode |-> "Clipping", info |-> [clipper |-> "none", masker |-> TRUE, filter |-> TRUE, opacity |-> Q]] }

\* -------------------------------------------------------------------- state

VARIABLES
    pc,          \* where endGroup stands: "endGroup", "applyFilter", "render",
                 \* "clip", "mask", "blend", "done"; "thrown" once an exception
                 \* has left endGroup
    mode,        \* m_mode
    blendInfo,   \* the SVGBlendInfo of the group
    shared,      \* m_canvas == m_parent->canvas()
    saves,       \* the save() calls on the shared canvas not yet restored
    canvas,      \* m_canvas
    opacity,     \* the local opacity of endGroup
    trail,       \* what endGroup applied to m_canvas, in order: "filter",
                 \* "clipMask", "mask"
    blends,      \* the blendCanvas calls on the parent canvas
    children,    \* the children of the filter element
    ctx,         \* the FilterContext of applyFilter, NoContext outside it
    idx,         \* the position of applyFilter's loop in children
    rendered,    \* history: the positions whose render was called, in order
    outputs,     \* history: one record for every render that has returned
    prev,        \* history: ctx before the latest step of applyFilter
    source,      \* history: the canvas applyFilter was called with
    conversions, \* history: the calls of fromCanvas and of toCanvas
    allocFailed, \* history: a std::make_shared has thrown std::bad_alloc
    probe        \* the arguments and the value of a function applied on its
                 \* own, outside endGroup; NoProbe inside endGroup

\* The variables of endGroup
groupVars == << pc, mode, blendInfo, shared, saves, canvas, opacity, trail, blends,
                children, ctx, idx, rendered, outputs, prev, source, conversions, allocFailed >>

vars == << groupVars, probe >>

NoProbe == [stage |-> "none"]

\* No context: before applyFilter, and after it has destroyed its context
NoContext ==
    [heap |-> << >>, nextId |-> 0, results |-> << >>, lastResult |-> Null,
     sourceGraphic |-> Null, sourceAlpha |-> Null]

NoCanvas == [x |-> 0, y |-> 0, w |-> 0, h |-> 0, stride |-> 0, data |-> << >>]

\* endGroup is entered for a group beginGroup has begun: on the parent's
\* canvas, saved once, when no compositing is required, and else on a canvas
\* of its own that the group has been painted on.  The filter's children
\* are read only when the filter is applied.
Init ==
    /\ pc = "endGroup"
    /\ \E g \in Groups :
          /\ mode = g.mode
          /\ blendInfo = g.info
          /\ shared = ~requiresCompositing(g.info, g.mode)
          /\ children \in IF g.mode = "Painting" /\ g.info.filter
                          THEN ChildLists(MaxChildren) ELSE { << >> }
    /\ saves = IF shared THEN 1 ELSE 0
    /\ canvas \in Rasters
    /\ opacity = Q
    /\ trail = << >>
    /\ blends = << >>
    /\ ctx = NoContext
    /\ idx = 0
    /\ rendered = << >>
    /\ outputs = << >>
    /\ prev = NoContext
    /\ source = NoCanvas
    /\ conversions = [from |-> 0, to |-> 0]
    /\ allocFailed = FALSE
    /\ probe = NoProbe

\* History: the image a render has left behind, the context being c before
\* and d after it: the newest image of d that c did not hold, or Null
NewImageOf(c, d) ==
    LET new == DOMAIN d.heap \ DOMAIN c.heap
    IN  IF new = {} THEN Null ELSE CHOOSE id \in new : \A o \in new : o <= id

\* ------------------------------------------------------------------ actions

\* SVGRenderState::endGroup up to its call of applyFilter: the restore and
\* return on a shared canvas, else the opacity and the test for the filter
EndGroup ==
    /\ pc = "endGroup"
    /\ IF shared
       THEN /\ saves' = saves - 1
            /\ pc' = "done"
            /\ UNCHANGED opacity
       ELSE /\ opacity' = IF mode = "Clipping" THEN Q ELSE blendInfo.opacity
            /\ pc' = IF mode = "Painting" /\ blendInfo.filter THEN "applyFilter" ELSE "clip"
            /\ UNCHANGED saves
    /\ UNCHANGED << mode, blendInfo, shared, canvas, trail, blends, children, ctx, idx,
                    rendered, outputs, prev, source, conversions, allocFailed >>
    /\ UNCHANGED probe

\* SVGFilterElement::applyFilter: the construction of the FilterContext
ApplyFilter ==
    /\ pc = "applyFilter"
    /\ ctx' = NewContext(canvas)
    /\ idx' = 1
    /\ source' = canvas
    /\ conversions' = [conversions EXCEPT !.from = @ + 1]
    /\ pc' = "render"
    /\ UNCHANGED << mode, blendInfo, shared, saves, canvas, opacity, trail, blends,
                    children, rendered, outputs, prev, allocFailed >>
    /\ UNCHANGED probe

\* std::make_shared throws std::bad_alloc in the FilterContext constructor:
\* nothing between it and the caller of endGroup catches
ConstructThrows ==
    /\ pc = "applyFilter"
    /\ allocFailed' = TRUE
    /\ pc' = "thrown"
    /\ UNCHANGED << mode, blendInfo, shared, saves, canvas, opacity, trail, blends,
                    children, ctx, idx, rendered, outputs, prev, source, conversions >>
    /\ UNCHANGED probe

\* One round of applyFilter's loop, on a child that is a filter primitive
RenderPrimitive ==
    /\ pc = "render"
    /\ idx <= Len(children)
    /\ isFilterPrimitiveElement(children[idx])
    /\ ctx' = Render(ctx, children[idx])
    /\ rendered' = Append(rendered, idx)
    /\ outputs' = Append(outputs, [child |-> idx,
                                   name |-> children[idx].result,
                                   produced |-> Allocates(ctx, children[idx]),
                                   image |-> NewImageOf(ctx, ctx')])
    /\ prev' = ctx
    /\ idx' = idx + 1
    /\ UNCHANGED << pc, mode, blendInfo, shared, saves, canvas, opacity, trail, blends,
                    children, source, conversions, allocFailed >>
    /\ UNCHANGED probe

\* One round of applyFilter's loop, on a child that is no filter primitive
SkipChild ==
    /\ pc = "render"
    /\ idx <= Len(children)
    /\ ~isFilterPrimitiveElement(children[idx])
    /\ prev' = ctx
    /\ idx' = idx + 1
    /\ UNCHANGED << pc, mode, blendInfo, shared, saves, canvas, opacity, trail, blends,
                    children, ctx, rendered, outputs, source, conversions, allocFailed >>
    /\ UNCHANGED probe

\* std::make_shared throws std::bad_alloc inside a render: the exception
\* unwinds applyFilter, which destroys the context, and endGroup
RenderThrows ==
    /\ pc = "render"
    /\ idx <= Len(children)
    /\ isFilterPrimitiveElement(children[idx])
    /\ Allocates(ctx, children[idx])
    /\ rendered' = Append(rendered, idx)
    /\ prev' = ctx
    /\ ctx' = NoContext
    /\ allocFailed' = TRUE
    /\ pc' = "thrown"
    /\ UNCHANGED << mode, blendInfo, shared, saves, canvas, opacity, trail, blends,
                    children, idx, outputs, source, conversions >>
    /\ UNCHANGED probe

\* applyFilter changed to convert SourceGraphic instead of lastResult
ApplyFilterReturnSource ==
    /\ pc = "render"
    /\ idx > Len(children)
    /\ canvas' = toCanvas(ctx.heap[ctx.sourceGraphic], Extents(canvas))
    /\ conversions' = [conversions EXCEPT !.to = @ + 1]
    /\ prev' = ctx
    /\ ctx' = NoContext
    /\ trail' = Append(trail, "filter")
    /\ pc' = "clip"
    /\ UNCHANGED << mode, blendInfo, shared, saves, opacity, blends, children,
                    idx, rendered, outputs, source, allocFailed >>
    /\ UNCHANGED probe

\* The end of applyFilter, c.lastResult->toCanvas(sg.extents()), and
\* endGroup taking the canvas it returns
ApplyFilterReturn ==
    /\ pc = "render"
    /\ idx > Len(children)
    /\ ctx.lastResult # Null
    /\ canvas' = toCanvas(ctx.heap[ctx.lastResult], Extents(canvas))
    /\ conversions' = [conversions EXCEPT !.to = @ + 1]
    /\ prev' = ctx
    /\ ctx' = NoContext
    /\ trail' = Append(trail, "filter")
    /\ pc' = "clip"
    /\ UNCHANGED << mode, blendInfo, shared, saves, opacity, blends, children,
                    idx, rendered, outputs, source, allocFailed >>
    /\ UNCHANGED probe

\* if(blendInfo.clipper()) blendInfo.clipper()->applyClipMask(*this)
ApplyClipMask ==
    /\ pc = "clip"
    /\ trail' = IF blendInfo.clipper # "none" THEN Append(trail, "clipMask") ELSE trail
    /\ pc' = "mask"
    /\ UNCHANGED << mode, blendInfo, shared, saves, canvas, opacity, blends, children,
                    ctx, idx, rendered, outputs, prev, source, conversions, allocFailed >>
    /\ UNCHANGED probe

\* endGroup changed to apply the mask in every rendering mode
ApplyMaskInEveryMode ==
    /\ pc = "mask"
    /\ trail' = IF blendInfo.masker THEN Append(trail, "mask") ELSE trail
    /\ pc' = "blend"
    /\ UNCHANGED << mode, blendInfo, shared, saves, canvas, opacity, blends, children,
                    ctx, idx, rendered, outputs, prev, source, conversions, allocFailed >>
    /\ UNCHANGED probe

\* if(m_mode == Painting && blendInfo.masker()) blendInfo.masker()->applyMask(*this)
ApplyMask ==
    /\ pc = "mask"
    /\ trail' = IF mode = "Painting" /\ blendInfo.masker THEN Append(trail, "mask") ELSE trail
    /\ pc' = "blend"
    /\ UNCHANGED << mode, blendInfo, shared, saves, canvas, opacity, blends, children,
                    ctx, idx, rendered, outputs, prev, source, conversions, allocFailed >>
    /\ UNCHANGED probe

\* m_parent->m_canvas->blendCanvas(*m_canvas, BlendMode::Src_Over, opacity)
BlendCanvas ==
    /\ pc = "blend"
    /\ blends' = Append(blends, [canvas |-> canvas, trail |-> trail,
                                 mode |-> "Src_Over", opacity |-> opacity])
    /\ pc' = "done"
    /\ UNCHANGED << mode, blendInfo, shared, saves, canvas, opacity, trail, children,
                    ctx, idx, rendered, outputs, prev, source, conversions, allocFailed >>
    /\ UNCHANGED probe

Next ==
    \/ EndGroup
    \/ ApplyFilter
    \/ ConstructThrows
    \/ RenderPrimitive
    \/ SkipChild
    \/ RenderThrows
    \/ ApplyFilterReturn
    \/ ApplyClipMask
    \/ ApplyMask
    \/ BlendCanvas

Spec == Init /\ [][Next]_vars

\* ------------------------------------- applyFilter on a filter without children

\* Canvases of one pixel: every value of a colour byte in an opaque pixel,
\* and some premultiplied pixels that are not opaque
RoundTripRasters ==
    { Raster(1, 1, << << v, (v + 85) % 256, 255 - v, 255 >> >>) : v \in 0 .. 255 }
        \cup { Raster(1, 1, << << v \div 2, 0, v, v >> >>) : v \in {0, 1, 128, 254} }

\* endGroup is entered in Painting mode for a group with a filter element
\* that has no children
InitRoundTrip ==
    /\ pc = "endGroup"
    /\ \E g \in {x \in Groups : x.mode = "Painting" /\ x.info.filter} :
          /\ mode = g.mode
          /\ blendInfo = g.info
          /\ shared = ~requiresCompositing(g.info, g.mode)
    /\ children = << >>
    /\ saves = 0
    /\ canvas \in RoundTripRasters
    /\ opacity = Q
    /\ trail = << >>
    /\ blends = << >>
    /\ ctx = NoContext
    /\ idx = 0
    /\ rendered = << >>
    /\ outputs = << >>
    /\ prev = NoContext
    /\ source = NoCanvas
    /\ conversions = [from |-> 0, to |-> 0]
    /\ allocFailed = FALSE
    /\ probe = NoProbe

\* The steps of endGroup when the loop of applyFilter has no child to visit
NextRoundTrip ==
    \/ EndGroup
    \/ ApplyFilter
    \/ ConstructThrows
    \/ ApplyFilterReturn
    \/ ApplyClipMask
    \/ ApplyMask
    \/ BlendCanvas

SpecRoundTrip == InitRoundTrip /\ [][NextRoundTrip]_vars

\* No group is being ended
Idle ==
    /\ pc = "idle"
    /\ mode = "Painting"
    /\ blendInfo = [clipper |-> "none", masker |-> FALSE, filter |-> FALSE, opacity |-> Q]
    /\ shared = TRUE
    /\ saves = 0
    /\ canvas = NoCanvas
    /\ opacity = Q
    /\ trail = << >>
    /\ blends = << >>
    /\ children = << >>
    /\ ctx = NoContext
    /\ idx = 0
    /\ rendered = << >>
    /\ outputs = << >>
    /\ prev = NoContext
    /\ source = NoCanvas
    /\ conversions = [from |-> 0, to |-> 0]
    /\ allocFailed = FALSE

\* --------------------------------- a composite of two published images

\* Premultiplied pixels with 0 <= r, g, b <= a <= 1: transparent, opaque and
\* between, the colours at 0, at alpha and between
PremulAlphas == {0, 1, 7, 64, 5000, Q \div 2, Q - 1, Q}

WellFormedPixels ==
    UNION { { Pixel(r, g, b, a) : r \in {0, a \div 3, a}, g \in {0, a}, b \in {a \div 7, a} }
            : a \in PremulAlphas }

\* Pixels a primitive can leave behind that are not of that form: a colour
\* above alpha and a negative one, a negative alpha, an alpha above 1
StrayPixels ==
    { Pixel(Q, 0 - 5, 100, Q \div 2), Pixel(0 - 100, 0, 0, 0 - 3000),
      Pixel(Q, Q, 19342, 19342) }

\* feComposite elements reading the results "A" and "B": the five
\* Porter-Duff operators and the arithmetic operator with k = (0, 1, 0, 0)
\* and with four coefficients that are not 0
CompositeElements ==
    { [Prim("feComposite", "A", "B", "") EXCEPT !.operator = op]
        : op \in {"over", "in", "out", "atop", "xor"} }
    \cup
    { [Prim("feComposite", "A", "B", "") EXCEPT !.operator = "arithmetic", !.k2 = Q],
      [Prim("feComposite", "A", "B", "") EXCEPT !.operator = "arithmetic",
          !.k1 = Q \div 2, !.k2 = Q \div 2, !.k3 = Q \div 4, !.k4 = Q \div 10] }

\* A context of images of one pixel in which earlier primitives have
\* published the image of pixel pa as "A" and then that of pb as "B"
PairContext(pa, pb) ==
    [heap |-> (1 :> [w |-> 1, h |-> 1, px |-> << ZeroPixel >>])
                @@ (2 :> [w |-> 1, h |-> 1, px |-> << ZeroPixel >>])
                @@ (3 :> [w |-> 1, h |-> 1, px |-> << pa >>])
                @@ (4 :> [w |-> 1, h |-> 1, px |-> << pb >>]),
     nextId |-> 5,
     results |-> ("SourceGraphic" :> 1) @@ ("SourceAlpha" :> 2) @@ ("A" :> 3) @@ ("B" :> 4),
     lastResult |-> 4,
     sourceGraphic |-> 1,
     sourceAlpha |-> 2]

InitComposite ==
    /\ Idle
    /\ probe \in
          { [stage |-> "inputs", d |-> d, c |-> PairContext(pa, pb), out |-> NoContext]
              : d \in CompositeElements,
                pa \in WellFormedPixels \cup StrayPixels,
                pb \in WellFormedPixels \cup StrayPixels }

\* The render of the feComposite on the context
RenderComposite ==
    /\ probe.stage = "inputs"
    /\ probe' = [probe EXCEPT !.stage = "rendered", !.out = Render(probe.c, probe.d)]
    /\ UNCHANGED groupVars

NextComposite == RenderComposite

SpecComposite == InitComposite /\ [][NextComposite]_vars

\* ------------------------------------------- the conversions, pixel by pixel

\* The bytes <<B, G, R, A>> of a pixel of a canvas, whether premultiplied or
\* not: bytes on both segments of the transfer curve
ByteLevels == {0, 1, 10, 11, 128, 255}

RasterPixels ==
    { << b, g, r, a >> : b \in ByteLevels, g \in ByteLevels, r \in ByteLevels,
                         a \in {0, 1, 128, 255} }

\* The pixels of a FilterImage: channels below 0, above alpha and above 1,
\* alpha below 0, around 1e-4 (between 1 and 2 units of the grid) and above 1
ColourLevels == {0 - Q, 0 - 1, 0, 1, 2, 64, Q \div 2, Q, 2 * Q}

AlphaLevels == {0 - Q, 0 - 1, 0, 1, 2, 3, Q \div 2, Q - 1, Q, Q + 1, 2 * Q}

LinearPixels ==
    { Pixel(r, g, b, a) : r \in ColourLevels, g \in ColourLevels, b \in {0 - 1, 64, Q},
                          a \in AlphaLevels }

\* A pixel of a canvas to convert with fromCanvas and back with toCanvas, or
\* a pixel of a FilterImage to convert with toCanvas
InitCodec ==
    /\ Idle
    /\ probe \in
          { [stage |-> "raster", origin |-> "raster", bytes |-> b,
             linear |-> ZeroPixel, out |-> << >>] : b \in RasterPixels }
          \cup
          { [stage |-> "linear", origin |-> "linear", bytes |-> << >>,
             linear |-> p, out |-> << >>] : p \in LinearPixels }

\* The body of the loop of FilterImage::fromCanvas on one pixel
FromCanvasPixel ==
    /\ probe.stage = "raster"
    /\ probe' = [probe EXCEPT
                   !.stage = "linear",
                   !.linear = LinearOfBytes(probe.bytes[1], probe.bytes[2],
                                            probe.bytes[3], probe.bytes[4])]
    /\ UNCHANGED groupVars

\* The body of the loop of FilterImage::toCanvas on one pixel
ToCanvasPixel ==
    /\ probe.stage = "linear"
    /\ probe' = [probe EXCEPT !.stage = "written", !.out = BytesOfLinear(probe.linear)]
    /\ UNCHANGED groupVars

NextCodec ==
    \/ FromCanvasPixel
    \/ ToCanvasPixel

SpecCodec == InitCodec /\ [][NextCodec]_vars

\* ------------------------------------------------- the blur of one image

MaxArea == 4

MaxRadius == 3

\* Transparent, opaque white and a half-transparent colour
BlurPalette == {ZeroPixel, Pixel(Q, Q, Q, Q), Pixel(Q \div 2, 0, Q \div 4, Q \div 2)}

\* Images of every width and height of at most MaxArea pixels, strips of
\* one pixel included, the uniform images among them
BlurShapes == {s \in (1 .. MaxArea) \X (1 .. MaxArea) : s[1] * s[2] <= MaxArea}

BlurImages ==
    UNION { {[w |-> s[1], h |-> s[2], px |-> px] : px \in [1 .. s[1] * s[2] -> BlurPalette]}
            : s \in BlurShapes }

\* stdDeviation lists: none, zero, negative, positive with box radius 0,
\* one negative and one positive, and positive with radii 1 and 2
BlurDeviations ==
    { << >>, << 0 >>, << 0, 0 >>, << 0 - Q, 0 - Q >>, << Q \div 2 >>,
      << 0 - Q, Q >>, << Q >>, << 0, 2 * Q >>, << 2 * Q, Q \div 4 >> }

BlurElements ==
    { [Prim("feGaussianBlur", "A", "", "") EXCEPT !.stdDeviation = v] : v \in BlurDeviations }

\* A context in which an earlier primitive has published the image img as "A"
BlurContext(img) ==
    [heap |-> (1 :> NewImage(img.w, img.h)) @@ (2 :> NewImage(img.w, img.h)) @@ (3 :> img),
     nextId |-> 4,
     results |-> ("SourceGraphic" :> 1) @@ ("SourceAlpha" :> 2) @@ ("A" :> 3),
     lastResult |-> 3,
     sourceGraphic |-> 1,
     sourceAlpha |-> 2]

NoAccesses == [reads |-> {}, writes |-> {}]

\* Either one call of boxBlur on the pixels of an image, with a radius of
\* 1 .. MaxRadius in either direction, or one render of an feGaussianBlur
InitBlur ==
    /\ Idle
    /\ probe \in
          { [stage |-> "inputs", op |-> "pass", img |-> img, r |-> r, horizontal |-> hz,
             d |-> Prim("feGaussianBlur", "A", "", ""), out |-> << >>, c |-> NoContext,
             passes |-> << >>, accesses |-> NoAccesses]
              : img \in BlurImages, r \in 1 .. MaxRadius, hz \in BOOLEAN }
          \cup
          { [stage |-> "inputs", op |-> "render", img |-> img, r |-> 0, horizontal |-> TRUE,
             d |-> d, out |-> << >>, c |-> NoContext,
             passes |-> << >>, accesses |-> NoAccesses]
              : img \in BlurImages, d \in BlurElements }

\* boxBlur(src, dst, w, h, r, horizontal) into a new image
BoxBlurPass ==
    /\ probe.stage = "inputs"
    /\ probe.op = "pass"
    /\ probe' = [probe EXCEPT
           !.stage = "blurred",
           !.out = boxBlur(probe.img.px, NewImage(probe.img.w, probe.img.h).px,
                           probe.img.w, probe.img.h, probe.r, probe.horizontal),
           !.accesses = BlurAccesses(probe.img.w, probe.img.h, probe.r, probe.horizontal)]
    /\ UNCHANGED groupVars

\* The render of the feGaussianBlur on the context
RenderBlur ==
    /\ probe.stage = "inputs"
    /\ probe.op = "render"
    /\ probe' = [probe EXCEPT
           !.stage = "rendered",
           !.c = Render(BlurContext(probe.img), probe.d),
           !.passes = GaussianBlurPasses(probe.d)]
    /\ UNCHANGED groupVars

NextBlur == BoxBlurPass \/ RenderBlur

SpecBlur == InitBlur /\ [][NextBlur]_vars

\* ------------------------------------------- the drop shadow of one image

\* feDropShadow elements reading the result "A": the default black flood,
\* a coloured flood of opacity 1/2 that is neither blurred nor moved, and a
\* coloured opaque flood that is blurred and moved
ShadowElements ==
    { Prim("feDropShadow", "A", "", ""),
      [Prim("feDropShadow", "A", "", "") EXCEPT
          !.flood_color = << 255, 128, 0 >>, !.flood_opacity = Q \div 2],
      [Prim("feDropShadow", "A", "", "") EXCEPT
          !.flood_color = << 0, 64, 255 >>, !.stdDeviation = << Q >>, !.dx = Q] }

InitShadow ==
    /\ Idle
    /\ probe \in
          { [stage |-> "inputs", img |-> img, d |-> d, shadow |-> << >>, c |-> NoContext]
              : img \in BlurImages, d \in ShadowElements }

\* The render of the feDropShadow on the context, and the shadow image its
\* first step builds
RenderShadow ==
    /\ probe.stage = "inputs"
    /\ probe' = [probe EXCEPT
           !.stage = "rendered",
           !.shadow = ShadowPixels(probe.img.px, probe.d),
           !.c = Render(BlurContext(probe.img), probe.d)]
    /\ UNCHANGED groupVars

NextShadow == RenderShadow

SpecShadow == InitShadow /\ [][NextShadow]_vars

\* ------------------------------------- a colour matrix after a primitive

\* feColorMatrix elements of type matrix with the identity values, reading
\* the last result and reading the result "A"
MatrixElements ==
    { [Prim("feColorMatrix", in, "", "") EXCEPT !.values = IdentityMatrix] : in \in {"", "A"} }

\* The contexts in which "A" has been published, and those in which a drop
\* shadow that does not blur has then been rendered on it
MatrixContexts ==
    { BlurContext(img) : img \in BlurImages }
    \cup
    { Render(BlurContext(img), d)
        : img \in BlurImages, d \in {e \in ShadowElements : e.stdDeviation = << >>} }

InitMatrix ==
    /\ Idle
    /\ probe \in
          { [stage |-> "inputs", d |-> d, c |-> c, out |-> NoContext]
              : d \in MatrixElements, c \in MatrixContexts }

\* The render of the feColorMatrix on the context
RenderMatrix ==
    /\ probe.stage = "inputs"
    /\ probe' = [probe EXCEPT !.stage = "rendered", !.out = Render(probe.c, probe.d)]
    /\ UNCHANGED groupVars

NextMatrix == RenderMatrix

SpecMatrix == InitMatrix /\ [][NextMatrix]_vars

\* ------------------------------------------- the chain of render states

MaxDepth == 3

\* The elements render states are made for, and one more to ask about
ChainElements == {"svg", "g", "use"}

AskedElements == ChainElements \cup {"mask"}

\* The render states from this one to the root: chain[k] is the element of
\* the k-th, whose parent is the next one; the last has no parent
Chains == UNION { [1 .. n -> ChainElements] : n \in 1 .. MaxDepth }

\* current->parent() changed to give nothing for the state below the root
ParentStopsBelowRoot(chain, current) ==
    IF current + 1 < Len(chain) THEN current + 1 ELSE Null

\* current->parent(), Null for none
Parent(chain, current) == IF current < Len(chain) THEN current + 1 ELSE Null

\* hasCycleReference(element) is called on the first state of the chain:
\* auto current = this
InitCycle ==
    /\ Idle
    /\ probe \in
          { [stage |-> "test", chain |-> chain, element |-> e, current |-> 1,
             result |-> FALSE, steps |-> 0]
              : chain \in Chains, e \in AskedElements }

\* if(element == current->element()) return true;
CycleTest ==
    /\ probe.stage = "test"
    /\ probe' = IF probe.element = probe.chain[probe.current]
                THEN [probe EXCEPT !.stage = "returned", !.result = TRUE, !.steps = @ + 1]
                ELSE [probe EXCEPT !.stage = "advance", !.steps = @ + 1]
    /\ UNCHANGED groupVars

\* current = current->parent(); } while(current); return false;
CycleAdvance ==
    /\ probe.stage = "advance"
    /\ LET next == Parent(probe.chain, probe.current)
       IN  probe' = IF next # Null
                    THEN [probe EXCEPT !.stage = "test", !.current = next]
                    ELSE [probe EXCEPT !.stage = "returned", !.current = next, !.result = FALSE]
    /\ UNCHANGED groupVars

NextCycle == CycleTest \/ CycleAdvance

\* The call runs on: nothing else is scheduled while it is under way
SpecCycle == InitCycle /\ [][NextCycle]_vars /\ WF_vars(NextCycle)

\* ------------------------------------------------- groups within groups

MaxGroups == 3

\* The blend infos of the groups: those of Groups and one that asks for
\* nothing
GroupInfos ==
    { g.info : g \in Groups }
        \cup { [clipper |-> "none", masker |-> FALSE, filter |-> FALSE, opacity |-> Q] }

\* A render state made for a child of the element of the state parent: it
\* draws on the canvas of its parent, in the mode of its parent
NewState(parent) == [canvas |-> parent.canvas, mode |-> parent.mode, unit |-> 0]

NoCalls == [saves |-> 0, restores |-> 0, blends |-> 0]

\* m_canvas->save() changed to do nothing
SaveCanvasNot(canvases, id) == canvases

\* m_canvas->save(), m_canvas->restore() and blendCanvas on the canvas id:
\* the calls each canvas has received
SaveCanvas(canvases, id) == [canvases EXCEPT ![id].saves = @ + 1]

RestoreCanvas(canvases, id) == [canvases EXCEPT ![id].restores = @ + 1]

BlendInto(canvases, id) == [canvases EXCEPT ![id].blends = @ + 1]

\* The root render state, painting or drawing a clip path on canvas 1; no
\* group has begun
InitGroup ==
    /\ Idle
    /\ probe \in
          { [stage |-> "groups",
             stack |-> << [canvas |-> 1, mode |-> m, unit |-> 0] >>,
             canvases |-> (1 :> NoCalls),
             nextCanvas |-> 2,
             log |-> << >>] : m \in {"Painting", "Clipping"} }

\* A state is made for a child of the element of the innermost state, and
\* beginGroup(blendInfo) is called on it. log gets the record of the group:
\* what beginGroup did, and what endGroup will have done
BeginGroup ==
    /\ probe.stage = "groups"
    /\ Len(probe.stack) <= MaxDepth
    /\ Len(probe.log) < MaxGroups
    /\ \E info \in GroupInfos :
          LET parent    == probe.stack[Len(probe.stack)]
              state     == NewState(parent)
              rc        == requiresCompositing(info, state.mode)
              canvases1 == IF rc THEN probe.canvases @@ (probe.nextCanvas :> NoCalls)
                           ELSE SaveCanvas(probe.canvases, state.canvas)
              m_canvas  == IF rc THEN probe.nextCanvas ELSE state.canvas
              unit      == Len(probe.log) + 1
          IN  probe' = [probe EXCEPT
                  !.stack = Append(@, [state EXCEPT !.canvas = m_canvas, !.unit = unit]),
                  !.canvases = canvases1,
                  !.nextCanvas = IF rc THEN @ + 1 ELSE @,
                  !.log = Append(@, [info |-> info, mode |-> state.mode,
                                     compositing |-> rc,
                                     parentCanvas |-> parent.canvas,
                                     canvas |-> m_canvas,
                                     created |-> IF rc THEN 1 ELSE 0,
                                     saves |-> canvases1[state.canvas].saves
                                                 - probe.canvases[state.canvas].saves,
                                     clipPaths |-> IF ~rc /\ info.clipper # "none" THEN 1 ELSE 0,
                                     restores |-> 0, filters |-> 0, clipMasks |-> 0,
                                     masks |-> 0, blends |-> 0, blendedInto |-> Null,
                                     opacity |-> Q, ended |-> FALSE])]
    /\ UNCHANGED groupVars

\* endGroup(blendInfo) is called on the innermost state, which then goes
\* out of scope
EndGroupOfState ==
    /\ probe.stage = "groups"
    /\ Len(probe.stack) >= 2
    /\ LET state  == probe.stack[Len(probe.stack)]
           parent == probe.stack[Len(probe.stack) - 1]
           info   == probe.log[state.unit].info
           filter == state.mode = "Painting" /\ info.filter
       IN  probe' =
             IF state.canvas = parent.canvas
             THEN [probe EXCEPT
                     !.stack = SubSeq(@, 1, Len(@) - 1),
                     !.canvases = RestoreCanvas(@, state.canvas),
                     !.log[state.unit].restores = @ + 1,
                     !.log[state.unit].ended = TRUE]
             ELSE [probe EXCEPT
                     !.stack = SubSeq(@, 1, Len(@) - 1),
                     !.canvases = BlendInto(IF filter THEN @ @@ (probe.nextCanvas :> NoCalls) ELSE @,
                                            parent.canvas),
                     !.nextCanvas = IF filter THEN @ + 1 ELSE @,
                     !.log[state.unit].filters = IF filter THEN @ + 1 ELSE @,
                     !.log[state.unit].clipMasks = IF info.clipper # "none" THEN @ + 1 ELSE @,
                     !.log[state.unit].masks =
                         IF state.mode = "Painting" /\ info.masker THEN @ + 1 ELSE @,
                     !.log[state.unit].blends = @ + 1,
                     !.log[state.unit].blendedInto = parent.canvas,
                     !.log[state.unit].opacity =
                         IF state.mode = "Clipping" THEN Q ELSE info.opacity,
                     !.log[state.unit].ended = TRUE]
    /\ UNCHANGED groupVars

NextGroup == BeginGroup \/ EndGroupOfState

SpecGroup == InitGroup /\ [][NextGroup]_vars

\* ------------------------------------------------------------------- claims

\* The names a child can refer to and publish
Names == {"SourceGraphic", "SourceAlpha", "a"}

\* The classes derived from SVGFilterPrimitiveElement
PrimitiveKinds ==
    {"feGaussianBlur", "feOffset", "feDropShadow", "feMerge", "feFlood", "feBlend",
     "feComposite", "feColorMatrix"}

\* The position of the child whose render was called last
LastRendered == rendered[Len(rendered)]

\* The latest step was the render of child LastRendered, which returned:
\* prev is the context before it and ctx the context after it
JustRendered ==
    pc = "render" /\ rendered # << >> /\ LastRendered = idx - 1

\* name is non-empty and no key of the results table of c
Unknown(c, name) == name # "" /\ name \notin DOMAIN c.results

\* d reads an input by a name that c does not know
MissingInput(c, d) ==
    \/ d.kind \in {"feGaussianBlur", "feOffset", "feDropShadow", "feColorMatrix"}
          /\ Unknown(c, d.in)
    \/ d.kind \in {"feBlend", "feComposite"}
          /\ (Unknown(c, d.in) \/ Unknown(c, d.in2))

\* C1: a primitive that reads an input by a name the results table does not
\* hold publishes nothing: lastResult and the results table are as before, no
\* exception leaves the render, and the loop stands at the next child.
C1_MissingInputPublishesNothing ==
    (pc \in {"render", "thrown"} /\ rendered # << >> /\ LastRendered \in {idx - 1, idx}
        /\ MissingInput(prev, children[LastRendered]))
    => /\ pc = "render"
       /\ idx = LastRendered + 1
       /\ ctx.lastResult = prev.lastResult
       /\ ctx.results = prev.results
       /\ ctx.heap = prev.heap

\* C1 witness: a primitive with a result name has failed on a missing input,
\* and another child follows it
C1_Witness ==
    /\ JustRendered
    /\ MissingInput(prev, children[LastRendered])
    /\ children[LastRendered].result = "a"
    /\ idx <= Len(children)

\* The record of the latest render that produced an output under name n,
\* as a set: empty when there is none
LatestNamed(n) ==
    {outputs[i] : i \in {j \in DOMAIN outputs :
                           /\ outputs[j].produced /\ outputs[j].name = n
                           /\ \A k \in DOMAIN outputs :
                                 (outputs[k].produced /\ outputs[k].name = n) => k <= j}}

\* What a reference to the non-empty name n is to resolve to: the output of
\* the latest primitive that published n, else the seed of that name, else
\* nothing
Resolution(n) ==
    IF LatestNamed(n) # {} THEN (CHOOSE o \in LatestNamed(n) : TRUE).image
    ELSE IF n = "SourceGraphic" THEN ctx.sourceGraphic
    ELSE IF n = "SourceAlpha" THEN ctx.sourceAlpha
    ELSE Null

\* C2: inside applyFilter, getInput("") is lastResult and getInput(n) is the
\* image of the latest earlier primitive that published n (the seed when
\* none did and n names one, nullptr else); the records are of earlier
\* children, and the output of a render is an image that did not exist when
\* the render read its inputs.
C2_InputResolution ==
    pc = "render" =>
       /\ getInput(ctx, "") = ctx.lastResult
       /\ \A n \in Names : getInput(ctx, n) = Resolution(n)
       /\ \A i \in DOMAIN outputs : outputs[i].child < idx
       /\ JustRendered =>
             /\ \A n \in Names \cup {""} : getInput(prev, n) < prev.nextId
             /\ outputs[Len(outputs)].produced => outputs[Len(outputs)].image >= prev.nextId

\* C2 witness: two primitives have published the name "a", and "a" resolves
\* to the image of the second
C2_Witness ==
    /\ pc = "render"
    /\ Len(outputs) = 2
    /\ outputs[1].produced /\ outputs[1].name = "a"
    /\ outputs[2].produced /\ outputs[2].name = "a"
    /\ outputs[1].image # outputs[2].image
    /\ getInput(ctx, "a") = outputs[2].image

\* The records of the renders that produced an output
Produced == {i \in DOMAIN outputs : outputs[i].produced}

\* C3: lastResult is the output of the latest primitive that produced one,
\* SourceGraphic when none did; a primitive that produces an output without a
\* result name leaves the results table as it was, and one with a result
\* name changes the table in that name only, which maps to the output.
C3_LastIsLatestOutput ==
    pc = "render" =>
       /\ Produced = {} => ctx.lastResult = ctx.sourceGraphic
       /\ \A i \in Produced :
             (\A k \in Produced : k <= i)
                => (outputs[i].image # Null /\ ctx.lastResult = outputs[i].image)
       /\ (JustRendered /\ outputs[Len(outputs)].produced) =>
             LET o == outputs[Len(outputs)]
             IN  IF o.name = "" THEN ctx.results = prev.results
                 ELSE /\ DOMAIN ctx.results = DOMAIN prev.results \cup {o.name}
                      /\ ctx.results[o.name] = ctx.lastResult
                      /\ \A n \in DOMAIN prev.results \ {o.name} :
                            ctx.results[n] = prev.results[n]

\* C3 witness: a primitive with a result name produced an output, and after
\* it a primitive without one
C3_Witness ==
    /\ pc = "render"
    /\ Len(outputs) = 2
    /\ outputs[1].produced /\ outputs[1].name = "a"
    /\ outputs[2].produced /\ outputs[2].name = ""
    /\ ctx.lastResult = outputs[2].image
    /\ ctx.results["a"] = outputs[1].image

\* The state right after the construction of the context
Constructed == pc = "render" /\ idx = 1

\* C4: right after construction the results table has the keys SourceGraphic
\* and SourceAlpha, lastResult is SourceGraphic, every pixel of SourceAlpha
\* is {0, 0, 0, a} with a the alpha of that pixel of SourceGraphic, and
\* SourceGraphic is the conversion of the source canvas.
C4_Construction ==
    Constructed =>
       /\ DOMAIN ctx.results = {"SourceGraphic", "SourceAlpha"}
       /\ ctx.results["SourceGraphic"] = ctx.sourceGraphic
       /\ ctx.results["SourceAlpha"] = ctx.sourceAlpha
       /\ ctx.lastResult = ctx.sourceGraphic
       /\ LET sg == ctx.heap[ctx.sourceGraphic]
              sa == ctx.heap[ctx.sourceAlpha]
          IN  /\ sa.w = sg.w /\ sa.h = sg.h
              /\ DOMAIN sa.px = 1 .. sg.w * sg.h
              /\ \A i \in 1 .. sg.w * sg.h :
                    /\ sa.px[i].r = 0 /\ sa.px[i].g = 0 /\ sa.px[i].b = 0
                    /\ sa.px[i].a = sg.px[i].a
              /\ sg = fromCanvas(source)
              /\ \A i \in 1 .. sg.w * sg.h :
                    /\ sg.px[i].a = 64 * source.data[4 * i]
                    /\ source.data[4 * i - 1] > 0 => sg.px[i].r > 0

\* C4 witness: a context has been constructed from a canvas with a coloured
\* pixel
C4_Witness ==
    /\ Constructed
    /\ \E i \in DOMAIN ctx.heap[ctx.sourceGraphic].px :
          ctx.heap[ctx.sourceGraphic].px[i].r > 0

\* The positions of the filter primitives among the first n children, in
\* document order
RECURSIVE PrimitivesUpTo(_)
PrimitivesUpTo(n) ==
    IF n = 0 THEN << >>
    ELSE IF children[n].kind \in PrimitiveKinds
         THEN Append(PrimitivesUpTo(n - 1), n)
         ELSE PrimitivesUpTo(n - 1)

\* applyFilter has returned
Filtered == pc \in {"clip", "mask", "blend", "done"} /\ source # NoCanvas

\* C5: the renders applyFilter has called are those of the filter
\* primitives among the children it has passed, once each and in document
\* order; when it returns it has passed every child.
C5_EveryPrimitiveOnceInOrder ==
    /\ pc = "render" => rendered = PrimitivesUpTo(idx - 1)
    /\ Filtered => (idx = Len(children) + 1 /\ rendered = PrimitivesUpTo(Len(children)))

\* C5 witness: applyFilter has returned from a list of a child that is no
\* primitive, rendering the primitive after it
C5_Witness ==
    /\ Filtered
    /\ Len(children) = 2
    /\ children[1].kind = "Other"
    /\ rendered = << 2 >>

\* C6: the canvas applyFilter returns is the conversion of lastResult as the
\* last child left it, with the extents of the source canvas; one invocation
\* converts once from the canvas and once to a canvas; when no primitive
\* produced an output, the canvas is the conversion of SourceGraphic.
C6_ReturnsConversionOfLast ==
    /\ conversions.from <= 1 /\ conversions.to <= 1
    /\ pc = "render" => conversions = [from |-> 1, to |-> 0]
    /\ Filtered =>
          /\ conversions = [from |-> 1, to |-> 1]
          /\ pc = "clip" =>
                /\ canvas = toCanvas(prev.heap[prev.lastResult], Extents(source))
                /\ Extents(canvas) = Extents(source)
                /\ Len(canvas.data) = Len(source.data)
                /\ Produced = {} => canvas = toCanvas(fromCanvas(source), Extents(source))

\* C6 witness: applyFilter has returned from a list of primitives that all
\* failed on a missing input
C6_Witness ==
    /\ Filtered /\ pc = "clip"
    /\ Len(children) = 2
    /\ Len(outputs) = 2
    /\ Produced = {}

\* C7: inside applyFilter the name SourceGraphic resolves to the image
\* converted from the source canvas and SourceAlpha to its alpha-only
\* reduction, whatever the result names of the children.
C7_SeedNamesReserved ==
    pc = "render" =>
       /\ getInput(ctx, "SourceGraphic") = ctx.sourceGraphic
       /\ getInput(ctx, "SourceAlpha") = ctx.sourceAlpha
       /\ ctx.heap[getInput(ctx, "SourceGraphic")] = fromCanvas(source)
       /\ ctx.heap[getInput(ctx, "SourceAlpha")].px = AlphaOnly(fromCanvas(source).px)

\* C8: a render leaves every image that existed before it as it was; the
\* images of SourceGraphic and SourceAlpha are those of the construction.
C8_InputsNeverMutated ==
    pc = "render" =>
       /\ ctx.heap[ctx.sourceGraphic] = fromCanvas(source)
       /\ ctx.heap[ctx.sourceAlpha].px = AlphaOnly(fromCanvas(source).px)
       /\ JustRendered =>
             /\ \A id \in Reachable(prev) : id \in DOMAIN ctx.heap => ctx.heap[id] = prev.heap[id]
             /\ outputs[Len(outputs)].produced => ctx.lastResult \notin DOMAIN prev.heap

\* C8 witness: a blur with a positive radius has produced an output that
\* differs from its input, and a merge that read that output has followed
C8_Witness ==
    /\ JustRendered
    /\ Len(outputs) = 2
    /\ children[1].kind = "feGaussianBlur" /\ children[1].stdDeviation # << >>
    /\ outputs[1].produced
    /\ outputs[1].image \in DOMAIN ctx.heap
    /\ ctx.heap[outputs[1].image] # ctx.heap[ctx.sourceGraphic]
    /\ children[2].kind = "feMerge" /\ children[2].nodes # << >>
    /\ outputs[2].produced

\* C9: every image of the context has the width and the height of
\* SourceGraphic, which are those of the source canvas, and that many pixels.
C9_DimensionalConservation ==
    pc = "render" =>
       \A id \in DOMAIN ctx.heap :
          /\ ctx.heap[id].w = source.w
          /\ ctx.heap[id].h = source.h
          /\ DOMAIN ctx.heap[id].px = 1 .. source.w * source.h

\* C9 witness: on a canvas wider than high, a primitive that sizes its
\* output from its input and one that sizes it from SourceGraphic have
\* produced outputs
C9_Witness ==
    /\ pc = "render"
    /\ source.w # source.h
    /\ Len(outputs) = 2
    /\ children[1].kind = "feOffset" /\ outputs[1].produced
    /\ children[2].kind = "feMerge" /\ outputs[2].produced
    /\ outputs[1].image \in DOMAIN ctx.heap

\* C10: when the allocation of an image fails, no exception leaves
\* endGroup, and the canvas blended into the parent is the unfiltered source
\* canvas.
C10_AllocationFailurePassesThrough ==
    allocFailed =>
       /\ pc # "thrown"
       /\ pc = "done" => (blends # << >> /\ blends[Len(blends)].canvas = source)

\* Every pixel of the canvas has the alpha byte 255
Opaque(cv) == \A i \in DOMAIN cv.data : i % 4 = 0 => cv.data[i] = 255

\* C11: with no primitive applied, the canvas applyFilter returns for a fully
\* opaque source canvas has every alpha byte 255 and every colour byte within
\* 1 of the byte of the source canvas.
C11_OpaqueRoundTrip ==
    (Filtered /\ children = << >> /\ Opaque(source)) =>
       /\ DOMAIN canvas.data = DOMAIN source.data
       /\ \A i \in DOMAIN source.data :
             /\ canvas.data[i] - source.data[i] \in {0 - 1, 0, 1}
             /\ i % 4 = 0 => canvas.data[i] = 255

\* C11 witness: applyFilter has returned for an opaque pixel whose bytes lie
\* on the linear and on the power segment of the transfer curve
C11_Witness ==
    /\ Filtered /\ children = << >> /\ Opaque(source)
    /\ source.data[1] = 10
    /\ source.data[3] = 245
    /\ canvas.data[4] = 255

\* C12: a pixel of a canvas with alpha byte 0 converts to the pixel
\* {0, 0, 0, 0} whatever its colour bytes; a linear pixel whose alpha,
\* clamped to [0, 1], is below 1e-4 is written as four zero bytes; so a
\* transparent pixel of a canvas comes back as four zero bytes.
C12_TransparentRoundTrip ==
    /\ (probe.stage \in {"linear", "written"} /\ probe.origin = "raster"
           /\ probe.bytes[4] = 0)
          => probe.linear = ZeroPixel
    /\ (probe.stage = "written" /\ Clamp(probe.linear.a, 0, Q) * 10000 < Q)
          => probe.out = << 0, 0, 0, 0 >>
    /\ (probe.stage = "written" /\ probe.origin = "raster" /\ probe.bytes[4] = 0)
          => probe.out = << 0, 0, 0, 0 >>

\* C12 witness: a pixel of alpha 0 with colour bytes that are not 0 has been
\* converted and written back
C12_Witness ==
    /\ probe.stage = "written" /\ probe.origin = "raster"
    /\ probe.bytes = << 255, 128, 10, 0 >>
    /\ probe.out = << 0, 0, 0, 0 >>

\* C13: every byte toCanvas writes is in 0 .. 255, and each colour byte of a
\* pixel is at most the alpha byte of that pixel, whatever the linear pixel.
C13_OutputWellFormed ==
    probe.stage = "written" =>
       /\ \A i \in 1 .. 4 : probe.out[i] \in 0 .. 255
       /\ \A i \in 1 .. 3 : probe.out[i] <= probe.out[4]

\* C13 witness: a pixel with a colour above its alpha, a negative colour and
\* an alpha strictly between 0 and 1 has been written with a positive alpha
C13_Witness ==
    /\ probe.stage = "written" /\ probe.origin = "linear"
    /\ probe.linear.r > probe.linear.a
    /\ probe.linear.g < 0
    /\ probe.linear.a = Q \div 2
    /\ probe.out[4] = 128
    /\ probe.out[3] = 128

\* C14: every pixel of every image a primitive has published has an alpha
\* within [0, 1].
C14_AlphaRange ==
    pc = "render" =>
       \A i \in Produced :
          outputs[i].image \in DOMAIN ctx.heap =>
             \A k \in DOMAIN ctx.heap[outputs[i].image].px :
                /\ ctx.heap[outputs[i].image].px[k].a >= 0
                /\ ctx.heap[outputs[i].image].px[k].a <= Q

\* What endGroup is to apply to a canvas of the group's own, in order
ExpectedTrail ==
    (IF mode = "Painting" /\ blendInfo.filter THEN << "filter" >> ELSE << >>)
        \o (IF blendInfo.clipper # "none" THEN << "clipMask" >> ELSE << >>)
        \o (IF mode = "Painting" /\ blendInfo.masker THEN << "mask" >> ELSE << >>)

\* s is an initial part of t
IsPrefix(s, t) == Len(s) <= Len(t) /\ s = SubSeq(t, 1, Len(s))

\* C15: endGroup on a canvas of the group's own applies the filter (in
\* Painting mode), then the clip mask, then the mask (in Painting mode), and
\* then blends the canvas once into the parent with Src_Over at the group's
\* opacity; the canvas blended is what the filter returned; in Clipping mode
\* no filter and no mask is applied and the opacity is 1; nothing is blended
\* before the end, and nothing at all from a canvas shared with the parent.
C15_CompositionProtocol ==
    /\ IsPrefix(trail, ExpectedTrail)
    /\ pc # "done" => blends = << >>
    /\ shared => (blends = << >> /\ trail = << >>)
    /\ mode = "Clipping" => (conversions.from = 0 /\ source = NoCanvas)
    /\ (pc = "done" /\ ~shared) =>
          /\ blends = << [canvas |-> canvas, trail |-> ExpectedTrail, mode |-> "Src_Over",
                          opacity |-> IF mode = "Clipping" THEN Q ELSE blendInfo.opacity] >>
          /\ (mode = "Painting" /\ blendInfo.filter) =>
                canvas = toCanvas(prev.heap[prev.lastResult], Extents(source))

\* C15 witness: a group with a filter, a clipper, a masker and the opacity
\* 1/2 has been ended in Painting mode
C15_Witness ==
    /\ pc = "done" /\ mode = "Painting"
    /\ Len(blends) = 1
    /\ blends[1].trail = << "filter", "clipMask", "mask" >>
    /\ blends[1].opacity = Q \div 2
    /\ Len(children) = 2

\* The latest step was the render of a child of the given kind, which
\* produced an output
JustProduced(kind) ==
    /\ JustRendered
    /\ children[LastRendered].kind = kind
    /\ outputs[Len(outputs)].produced

\* C16: the output of an offset by the rounded (ox, oy) has at (x, y) the
\* pixel of its input at (x - ox, y - oy) when that position is inside the
\* image and {0, 0, 0, 0} when it is not; an offset by (0, 0) gives the
\* pixels of its input.
C16_Offset ==
    JustProduced("feOffset") =>
       LET d   == children[LastRendered]
           in  == prev.heap[getInput(prev, d.in)]
           out == ctx.heap[ctx.lastResult]
           ox  == RoundToInt(d.dx)
           oy  == RoundToInt(d.dy)
       IN  /\ \A x \in 0 .. in.w - 1 : \A y \in 0 .. in.h - 1 :
                 out.px[y * in.w + x + 1] =
                    IF x - ox \in 0 .. in.w - 1 /\ y - oy \in 0 .. in.h - 1
                    THEN in.px[(y - oy) * in.w + (x - ox) + 1]
                    ELSE ZeroPixel
           /\ (ox = 0 /\ oy = 0) => out.px = in.px

\* C16 witness: an offset by (1, 0) of an image of 2 x 2 pixels has moved
\* the first pixel of the first row and has not moved the second, which is
\* not transparent, into the second row
C16_Witness ==
    /\ JustProduced("feOffset")
    /\ children[LastRendered].dx = Q
    /\ source.w = 2 /\ source.h = 2
    /\ prev.heap[getInput(prev, children[LastRendered].in)].px[2].a > 0
    /\ ctx.heap[ctx.lastResult].px[3] = ZeroPixel
    /\ ctx.heap[ctx.lastResult].px[2].a > 0

\* The pixels of the images the merge nodes among nodes[i ..] resolve to in
\* the context c, in document order
RECURSIVE ResolvedInputs(_, _, _)
ResolvedInputs(c, nodes, i) ==
    IF i > Len(nodes) THEN << >>
    ELSE LET id == IF nodes[i].node THEN getInput(c, nodes[i].in) ELSE Null
         IN  (IF id # Null THEN << c.heap[id].px >> ELSE << >>)
                 \o ResolvedInputs(c, nodes, i + 1)

\* acc = in + acc * (1 - in.a) over ins[i ..], pixel by pixel
RECURSIVE FoldOver(_, _, _)
FoldOver(ins, i, acc) ==
    IF i > Len(ins) THEN acc
    ELSE FoldOver(ins, i + 1,
                  [k \in DOMAIN acc |->
                     [ch \in Chan |-> ins[i][k][ch] + FMul(acc[k][ch], Q - ins[i][k].a)]])

\* C17: a merge always publishes a new image, which becomes lastResult; its
\* pixels are the fold acc = in + acc * (1 - in.a) from transparent black
\* over the references that resolve, in document order; with one resolving
\* reference they are the pixels of that input.
C17_MergeFold ==
    (JustRendered /\ children[LastRendered].kind = "feMerge") =>
       LET d   == children[LastRendered]
           ins == ResolvedInputs(prev, d.nodes, 1)
           sg  == prev.heap[prev.sourceGraphic]
           out == ctx.heap[ctx.lastResult]
       IN  /\ outputs[Len(outputs)].produced
           /\ ctx.lastResult = outputs[Len(outputs)].image
           /\ ctx.lastResult \notin DOMAIN prev.heap
           /\ out.px = FoldOver(ins, 1, [k \in 1 .. sg.w * sg.h |-> ZeroPixel])
           /\ Len(ins) = 0 => \A k \in DOMAIN out.px : out.px[k] = ZeroPixel
           /\ Len(ins) = 1 => out.px = ins[1]

\* C17 witness: a merge of four children, one of them no merge node and one
\* a reference that does not resolve, has laid SourceGraphic over
\* SourceGraphic, which has a pixel that is neither transparent nor opaque
C17_Witness ==
    /\ JustRendered /\ children[LastRendered].kind = "feMerge"
    /\ Len(children[LastRendered].nodes) = 4
    /\ "a" \notin DOMAIN prev.results
    /\ Len(ResolvedInputs(prev, children[LastRendered].nodes, 1)) = 2
    /\ ctx.heap[ctx.lastResult].px # ctx.heap[ctx.sourceGraphic].px

\* The pixel of the result "A", that of "B", and that of the output of the
\* composite rendered on them
PixelA == probe.c.heap[probe.c.results["A"]].px[1]

PixelB == probe.c.heap[probe.c.results["B"]].px[1]

PixelOut == probe.out.heap[probe.out.lastResult].px[1]

\* The factors <<fa, fb>> of a Porter-Duff operator for s over d
PorterDuff(op, s, d) ==
    CASE op = "over" -> << Q, Q - s.a >>
      [] op = "in"   -> << d.a, 0 >>
      [] op = "out"  -> << Q - d.a, 0 >>
      [] op = "atop" -> << d.a, Q - s.a >>
      [] op = "xor"  -> << Q - d.a, Q - s.a >>

\* C18: a composite with a Porter-Duff operator publishes a new image whose
\* pixel is s * fa + d * fb in every component, alpha too, with s the pixel
\* of in, d that of in2 and (fa, fb) by operator; Over on a transparent
\* black in2 gives the pixel of in.
C18_PorterDuff ==
    (probe.stage = "rendered" /\ probe.d.kind = "feComposite"
        /\ probe.d.operator \in {"over", "in", "out", "atop", "xor"}) =>
       LET f == PorterDuff(probe.d.operator, PixelA, PixelB)
       IN  /\ probe.out.lastResult \notin DOMAIN probe.c.heap
           /\ \A ch \in Chan :
                 PixelOut[ch] = FMul(PixelA[ch], f[1]) + FMul(PixelB[ch], f[2])
           /\ (probe.d.operator = "over" /\ PixelB = ZeroPixel) => PixelOut = PixelA

\* C18 witness: Xor of two pixels that are neither transparent nor opaque
C18_Witness ==
    /\ probe.stage = "rendered" /\ probe.d.kind = "feComposite"
    /\ probe.d.operator = "xor"
    /\ PixelA = Pixel(Q \div 2, 0, Q \div 2, Q \div 2)
    /\ PixelB.a = 5000 /\ PixelB.g = 5000
    /\ PixelOut.a > 0 /\ PixelOut.a < Q

\* 0 <= r, g, b <= a <= 1
WellFormed(p) ==
    /\ 0 <= p.a /\ p.a <= Q
    /\ \A ch \in {"r", "g", "b"} : 0 <= p[ch] /\ p[ch] <= p.a

\* C19: the arithmetic composite with k1 = 0, k2 = 1, k3 = 0, k4 = 0 gives
\* the pixel of in, whatever the pixel of in2, when the pixel of in is
\* premultiplied well-formed; also when one of them has alpha 0.
C19_ArithmeticIdentity ==
    (probe.stage = "rendered" /\ probe.d.kind = "feComposite"
        /\ probe.d.operator = "arithmetic"
        /\ << probe.d.k1, probe.d.k2, probe.d.k3, probe.d.k4 >> = << 0, Q, 0, 0 >>
        /\ WellFormed(PixelA))
    => PixelOut = PixelA

\* C19 witness: the identity on a pixel of in that is not opaque, with a
\* colour strictly between 0 and alpha, and a pixel of in2 of alpha 0
C19_Witness ==
    /\ probe.stage = "rendered" /\ probe.d.kind = "feComposite"
    /\ probe.d.operator = "arithmetic" /\ probe.d.k2 = Q /\ probe.d.k1 = 0
    /\ PixelA.a = 5000 /\ PixelA.r = 5000 \div 3
    /\ PixelB.a = 0
    /\ PixelOut = PixelA

\* B(s', d') of a blend mode, on unpremultiplied channels
BlendFunction(m, s, d) ==
    CASE m = "multiply" -> FMul(s, d)
      [] m = "screen"   -> s + d - FMul(s, d)
      [] m = "darken"   -> Min(s, d)
      [] m = "lighten"  -> Max(s, d)

\* out_c = B(s'_c, d'_c) * s.a * d.a + s_c * (1 - d.a) + d_c * (1 - s.a) and
\* out.a = s.a + d.a - s.a * d.a
BlendFormula(m, s, d) ==
    [ch \in Chan |->
       IF ch = "a" THEN s.a + d.a - FMul(s.a, d.a)
       ELSE FMul(FMul(BlendFunction(m, Unpremul(s[ch], s.a), Unpremul(d[ch], d.a)), s.a), d.a)
               + FMul(s[ch], Q - d.a) + FMul(d[ch], Q - s.a)]

\* C20: the output of a blend with the mode multiply, screen, darken or
\* lighten is, in every pixel and channel and up to the rounding of the
\* products, what the formula of that mode gives for the pixels of in and in2.
C20_BlendModes ==
    (JustProduced("feBlend")
        /\ children[LastRendered].mode \in {"multiply", "screen", "darken", "lighten"}) =>
       LET d   == children[LastRendered]
           s1  == prev.heap[getInput(prev, d.in)]
           s2  == prev.heap[getInput(prev, d.in2)]
           out == ctx.heap[ctx.lastResult]
       IN  \A k \in DOMAIN out.px : \A ch \in Chan :
              out.px[k][ch] - BlendFormula(d.mode, s1.px[k], s2.px[k])[ch] \in (0 - 4) .. 4

\* The pixels the blur harness has made: those boxBlur wrote, or those of
\* the image the render published
BlurredPixels ==
    IF probe.op = "pass" THEN probe.out ELSE probe.c.heap[probe.c.lastResult].px

\* The pixels the calls of boxBlur in passes make of the pixels px
RECURSIVE FoldPasses(_, _, _, _)
FoldPasses(px, w, h, passes) ==
    IF passes = << >> THEN px
    ELSE FoldPasses(boxBlur(px, px, w, h, Head(passes)[1], Head(passes)[2]), w, h, Tail(passes))

\* No blurring is requested of the feGaussianBlur d
NoBlurRequested(d) ==
    \/ Len(d.stdDeviation) = 0
    \/ StdDevX(d.stdDeviation) <= 0 /\ StdDevY(d.stdDeviation) <= 0
    \/ BoxRadius(StdDevX(d.stdDeviation)) = 0 /\ BoxRadius(StdDevY(d.stdDeviation)) = 0

\* C21: an feGaussianBlur whose stdDeviation list is empty, whose deviations
\* are both zero or negative, or whose box radii are both 0 publishes a new
\* image equal to its input pixel for pixel and makes it the last result,
\* and no render calls boxBlur with a radius below 1
C21_BlurIdentity ==
    probe.stage = "rendered" =>
        /\ \A k \in 1 .. Len(probe.passes) : probe.passes[k][1] >= 1
        /\ BlurredPixels = FoldPasses(probe.img.px, probe.img.w, probe.img.h, probe.passes)
        /\ NoBlurRequested(probe.d) =>
              /\ probe.passes = << >>
              /\ probe.c.lastResult \notin {Null, 1, 2, 3}
              /\ probe.c.lastResult \in DOMAIN probe.c.heap
              /\ probe.c.heap[probe.c.lastResult] = probe.img
              /\ probe.c.heap[3] = probe.img
              /\ probe.c.results = BlurContext(probe.img).results

C21_Witness ==
    /\ probe.stage = "rendered"
    /\ probe.d.stdDeviation = << Q \div 2 >>
    /\ probe.img.w = 2
    /\ probe.img.h = 2
    /\ probe.img.px[1] # probe.img.px[2]
    /\ BlurredPixels = probe.img.px

\* The sum of the samples at the positions lo .. hi of a strip of length n,
\* a position outside the strip standing for the nearest one inside
RECURSIVE WindowSum(_, _, _, _, _, _)
WindowSum(src, head, step, n, lo, hi) ==
    IF lo > hi THEN ZeroPixel
    ELSE PxAdd(src[head + Clamp(lo, 0, n - 1) * step + 1],
               WindowSum(src, head, step, n, lo + 1, hi))

\* The two pixels are equal to within one unit a channel
NearPixel(p, q) == \A ch \in Chan : p[ch] - q[ch] \in -1 .. 1

\* The strips of the pass under way: their number, length, step and heads
PassLength == IF probe.horizontal THEN probe.img.w ELSE probe.img.h

PassStep == IF probe.horizontal THEN 1 ELSE probe.img.w

PassStrips == IF probe.horizontal THEN probe.img.h ELSE probe.img.w

PassHead(i) == IF probe.horizontal THEN i * probe.img.w ELSE i

\* C22: one pass of boxBlur with a radius r >= 1 writes at every position j
\* of every strip the mean of the 2r + 1 samples at j - r .. j + r, the ends
\* of the strip repeated beyond them
C22_WindowMean ==
    probe.stage = "blurred" =>
        \A i \in 0 .. PassStrips - 1 : \A j \in 0 .. PassLength - 1 :
            NearPixel(probe.out[PassHead(i) + j * PassStep + 1],
                      PxDiv(WindowSum(probe.img.px, PassHead(i), PassStep, PassLength,
                                      j - probe.r, j + probe.r),
                            2 * probe.r + 1))

\* Every pixel of the image is the same
Uniform(img) == \A i \in DOMAIN img.px : img.px[i] = img.px[1]

\* C23: of an image whose pixels are all the same, every pass of boxBlur
\* with a radius r >= 1 and every render of an feGaussianBlur makes an image
\* whose pixels are all that same value
C23_UniformFixedPoint ==
    (probe.stage \in {"blurred", "rendered"} /\ Uniform(probe.img)) =>
        BlurredPixels = probe.img.px

C23_Witness ==
    /\ probe.stage = "blurred"
    /\ Uniform(probe.img)
    /\ probe.img.px[1] = Pixel(Q \div 2, 0, Q \div 4, Q \div 2)
    /\ probe.img.w = 2
    /\ probe.img.h = 2
    /\ probe.r = 3
    /\ BlurredPixels = probe.img.px

\* The sum of alpha over the pixels px
RECURSIVE AlphaMass(_)
AlphaMass(px) == IF px = << >> THEN 0 ELSE Head(px).a + AlphaMass(Tail(px))

\* C24: the sum of alpha over the output of a pass of boxBlur with a radius
\* r >= 1 equals the sum of alpha over its input, to within the rounding of
\* one unit a pixel
C24_AlphaMass ==
    probe.stage = "blurred" =>
        AlphaMass(probe.out) - AlphaMass(probe.img.px) \in -Len(probe.out) .. Len(probe.out)

\* C30: in a pass of boxBlur with a radius r >= 1 on an image of w * h
\* pixels every index read and every index written is one of 0 .. w * h - 1,
\* every read of a strip is at a position of that strip, and every pixel of
\* the destination is written exactly once
C30_IndexSafety ==
    probe.stage = "blurred" =>
        LET size == probe.img.w * probe.img.h
        IN  /\ Len(probe.out) = size
            /\ probe.accesses.reads # {}
            /\ \A rd \in probe.accesses.reads :
                  /\ rd[3] \in 0 .. size - 1
                  /\ \E j \in 0 .. PassLength - 1 : rd[3] = PassHead(rd[1]) + j * PassStep
            /\ \A wr \in probe.accesses.writes : wr[3] \in 0 .. size - 1
            /\ \A k \in 0 .. size - 1 :
                  Cardinality({wr \in probe.accesses.writes : wr[3] = k}) = 1

C30_Witness ==
    /\ probe.stage = "blurred"
    /\ probe.img.w = 2
    /\ probe.img.h = 2
    /\ probe.r = 3
    /\ ~probe.horizontal
    /\ Cardinality(probe.accesses.writes) = 4
    /\ <<1, 1, 3>> \in probe.accesses.reads

\* C25: the shadow image of a drop shadow has at every pixel the alpha
\* a' = input.a * flood_opacity and the colours L(flood colour) * a', so it is
\* {0, 0, 0, 0} where the input is transparent and no colour is above a'
C25_ShadowPremultiplied ==
    probe.stage = "rendered" =>
        \A i \in DOMAIN probe.shadow :
            LET a1 == FMul(probe.img.px[i].a, probe.d.flood_opacity)
                s  == probe.shadow[i]
            IN  /\ NearPixel(s, Pixel(FMul(toLinear(probe.d.flood_color[1] * 64), a1),
                                      FMul(toLinear(probe.d.flood_color[2] * 64), a1),
                                      FMul(toLinear(probe.d.flood_color[3] * 64), a1), a1))
                /\ probe.img.px[i].a = 0 => s = ZeroPixel
                /\ s.r <= s.a /\ s.g <= s.a /\ s.b <= s.a

\* The pixels the colour matrix of the harness has read and those it has
\* published
MatrixIn == probe.c.heap[getInput(probe.c, probe.d.in)].px

MatrixOut == probe.out.heap[probe.out.lastResult].px

\* C26: a colour matrix of type matrix with the identity values publishes
\* the pixels of its input, to within rounding, whenever the alpha of every
\* pixel of the input is in [0, 1], the pixels of alpha 0 included
C26_MatrixIdentity ==
    (/\ probe.stage = "rendered"
     /\ probe.d.type = "matrix"
     /\ probe.d.values = IdentityMatrix
     /\ \A i \in DOMAIN MatrixIn : MatrixIn[i].a \in 0 .. Q) =>
        \A i \in DOMAIN MatrixIn : NearPixel(MatrixOut[i], MatrixIn[i])

\* C28: lastResult is an image from the construction of the context on and
\* after every render, so applyFilter converts an image that exists when it
\* returns, and endGroup takes the canvas it returns and never keeps the
\* canvas it passed in
C28_LastNeverEmpty ==
    /\ pc = "render" =>
          /\ ctx.lastResult # Null
          /\ ctx.lastResult \in DOMAIN ctx.heap
    /\ Filtered =>
          /\ prev.lastResult # Null
          /\ prev.lastResult \in DOMAIN prev.heap
          /\ \E k \in DOMAIN trail : trail[k] = "filter"
          /\ pc = "clip" =>
                /\ canvas # NoCanvas
                /\ canvas = toCanvas(prev.heap[prev.lastResult], Extents(source))

\* C28 witness: applyFilter has returned after two renders, of which the
\* first produced an output and the second failed on a missing input
C28_Witness ==
    /\ Filtered /\ pc = "clip"
    /\ Len(outputs) = 2
    /\ outputs[1].produced
    /\ ~outputs[2].produced
    /\ prev.lastResult = outputs[1].image

\* C27: hasCycleReference(element) returns, on every finite chain of render
\* states; it returns true exactly when element is the element of the state
\* it is called on or of one of its ancestors, after at most one test a state
C27_CycleReference ==
    /\ [](probe.stage = "returned" =>
             /\ probe.result = (\E k \in DOMAIN probe.chain : probe.chain[k] = probe.element)
             /\ probe.steps <= Len(probe.chain))
    /\ <>(probe.stage = "returned")

\* C27 witness: the call has returned true for the element of the root of a
\* chain of three states, which is the element of no other state
C27_Witness ==
    /\ probe.stage = "returned"
    /\ probe.result
    /\ Len(probe.chain) = 3
    /\ probe.chain[3] = probe.element
    /\ probe.chain[1] # probe.element
    /\ probe.chain[2] # probe.element
    /\ probe.steps = 3

\* The groups that have begun and not ended whose state draws on the
\* canvas id without having made it
OpenSaves(id) ==
    Cardinality({k \in 2 .. Len(probe.stack) :
                    /\ probe.stack[k].canvas = id
                    /\ ~probe.log[probe.stack[k].unit].compositing})

\* C29: a group that requires no compositing saves the canvas it shares
\* with its parent at beginGroup, and its endGroup restores that canvas once
\* and neither filters nor blends; a group that requires compositing gets a
\* new canvas at beginGroup, and its endGroup blends into the canvas of the
\* parent once and restores nothing; on every canvas the saves not yet
\* restored are those of the groups still open on it, none when all have
\* ended
C29_GroupsPairUp ==
    probe.stage = "groups" =>
        /\ \A k \in DOMAIN probe.log :
              LET g == probe.log[k]
              IN  /\ g.compositing = requiresCompositing(g.info, g.mode)
                  /\ ~g.compositing =>
                        /\ g.canvas = g.parentCanvas
                        /\ g.created = 0 /\ g.saves = 1
                        /\ g.filters = 0 /\ g.clipMasks = 0 /\ g.masks = 0 /\ g.blends = 0
                        /\ g.restores = IF g.ended THEN 1 ELSE 0
                  /\ g.compositing =>
                        /\ g.canvas # g.parentCanvas
                        /\ g.created = 1 /\ g.saves = 0 /\ g.clipPaths = 0
                        /\ g.restores = 0
                        /\ g.blends = IF g.ended THEN 1 ELSE 0
                        /\ g.ended => g.blendedInto = g.parentCanvas
                        /\ g.filters = IF g.ended /\ g.mode = "Painting" /\ g.info.filter
                                       THEN 1 ELSE 0
        /\ \A id \in DOMAIN probe.canvases :
              /\ probe.canvases[id].saves - probe.canvases[id].restores = OpenSaves(id)
              /\ probe.canvases[id].blends =
                    Cardinality({k \in DOMAIN probe.log : probe.log[k].blendedInto = id})

\* C29 witness: three groups have ended: one that composites, inside it one
\* that does not, and inside that one that composites again
C29_Witness ==
    /\ probe.stage = "groups"
    /\ Len(probe.stack) = 1
    /\ Len(probe.log) = 3
    /\ \A k \in 1 .. 3 : probe.log[k].ended
    /\ probe.log[1].compositing
    /\ ~probe.log[2].compositing
    /\ probe.log[3].compositing
    /\ probe.log[2].parentCanvas = probe.log[1].canvas
    /\ probe.log[3].parentCanvas = probe.log[1].canvas
    /\ probe.log[3].blendedInto = probe.log[1].canvas
    /\ probe.canvases[probe.log[1].canvas] = [saves |-> 1, restores |-> 1, blends |-> 1]

====
